---------------------------- MODULE Spec2Model ----------------------------
(***************************************************************************)
(* Sonar echogram viewer: the bottom tracking filter, the T03 classifier   *)
(* and colour mapper (utils/colorMapping.ts), the legacy 0-80 classifier,  *)
(* the sample expander (utils/sonarDataConverter.ts), the playback hook    *)
(* (hooks/useRadarPlayer.ts) and the frame composer                        *)
(* (components/RadarCanvas.tsx).                                           *)
(*                                                                         *)
(* Numbers.  The program computes in IEEE doubles; the model computes in   *)
(* fixed point.  Amplitudes (raw, signal, TVG-corrected values, noise      *)
(* floor) are integers in units of 1/AmpScale; the filter estimate x is in *)
(* units of 1/XScale, its uncertainty P in units of 1/PScale (so that the  *)
(* process noise Q = 0.00001 is exactly one unit), the Kalman gain in      *)
(* units of 1/KScale and SNR values in units of 1/SnrScale.  Indices,      *)
(* bytes and colour channels are plain integers.  Arrays are functions     *)
(* over 0..n-1, as in the source.                                          *)
(***************************************************************************)
EXTENDS Integers, Sequences, FiniteSets, TLC

AmpScale == 100 * 100
XScale   == 10 * 100
PScale   == 1000 * 100
KScale   == 100 * 100
SnrScale == 10 * 10

Max(a, b) == IF a >= b THEN a ELSE b
Min(a, b) == IF a <= b THEN a ELSE b
Abs(a)    == IF a >= 0 THEN a ELSE -a

\* Math.round(n / d) for d > 0: nearest integer, halves towards +infinity.
RoundDiv(n, d) == (2 * n + d) \div (2 * d)

\* Math.floor(n / d) for d > 0.
FloorDiv(n, d) == n \div d

\* Math.ceil(n / d) for d > 0.
CeilDiv(n, d) == -((-n) \div d)

\* floor(a * b / c) for a, b >= 0 and c > 0 without an intermediate product
\* larger than b * c.
MulDiv(a, b, c) == (a \div c) * b + ((a % c) * b) \div c

\* The least element of a set of integers, -1 when it is empty (the value the
\* source's index searches start from).
FirstOf(S) == IF S = {} THEN -1 ELSE CHOOSE i \in S : \A j \in S : i <= j

Len0(a) == Cardinality(DOMAIN a)

RECURSIVE SumRange(_, _, _)
SumRange(a, lo, hi) ==
    IF lo > hi THEN 0
    ELSE IF lo = hi THEN a[lo]
    ELSE LET mid == (lo + hi) \div 2
         IN  SumRange(a, lo, mid) + SumRange(a, mid + 1, hi)

(***************************************************************************)
(* colorMapping.ts: constants                                              *)
(***************************************************************************)
MAX_RAW_SIGNAL == 255

NEAR_MAX_THRESHOLD == 180

\* The number of raw depth bins the hardware delivers (csvParser.ts reads
\* bytes 92..181) and that applyTVG and renderColumn divide by.
RAW_BINS == 90

(***************************************************************************)
(* class BottomKalmanFilter                                                *)
(***************************************************************************)
\* Q = 0.00001 in units of 1/PScale.
KalmanQ == 1

\* R = 2.0
KalmanR == 2

\* new BottomKalmanFilter(): x = -1, P = 1, initialized = false, stableCount = 0
NewFilter == [x |-> -XScale, P |-> PScale, initialized |-> FALSE, stableCount |-> 0]

\* Math.round(this.x)
RoundX(x) == RoundDiv(x, XScale)

\* The recursive weighted update of BottomKalmanFilter.update (lines 61-76):
\* confidence c10 is in tenths.
KalmanStep(f, measurement, c10) ==
    LET sc   == Min(10, f.stableCount + 1)
        \* adjustedR = R / (confidence * (1 + stableCount / 10))
        adjR == RoundDiv(KalmanR * PScale * 100, c10 * (10 + sc))
        P1   == f.P + KalmanQ
        K    == RoundDiv(P1 * KScale, P1 + adjR)
        x1   == f.x + RoundDiv(K * (measurement * XScale - f.x), KScale)
        P2   == RoundDiv(P1 * (KScale - K), KScale)
    IN  [x |-> x1, P |-> P2, initialized |-> TRUE, stableCount |-> sc]

\* A faulty variant of KalmanUpdateState: no rejection of measurements more
\* than maxPhysicalChange away from the estimate.
KalmanUpdateStateUngated(f, measurement, c10) ==
    IF ~f.initialized /\ measurement > 0 /\ c10 > 3
      THEN [x |-> measurement * XScale, P |-> f.P, initialized |-> TRUE, stableCount |-> 0]
    ELSE IF ~f.initialized
      THEN f
    ELSE IF measurement <= 0 \/ c10 < 3
      THEN [f EXCEPT !.P = f.P + KalmanQ]
    ELSE KalmanStep(f, measurement, c10)

\* update whose outlier branch leaves the stability counter as it is.
KalmanUpdateStateKeepsCount(f, measurement, c10) ==
    IF ~f.initialized /\ measurement > 0 /\ c10 > 3
      THEN [x |-> measurement * XScale, P |-> f.P, initialized |-> TRUE, stableCount |-> 0]
    ELSE IF ~f.initialized
      THEN f
    ELSE IF measurement <= 0 \/ c10 < 3
      THEN [f EXCEPT !.P = f.P + KalmanQ]
    ELSE IF Abs(measurement * XScale - f.x) > 1 * XScale
      THEN [f EXCEPT !.P = f.P + KalmanQ]
    ELSE KalmanStep(f, measurement, c10)

\* BottomKalmanFilter.update(measurement, confidence): the filter after the call.
KalmanUpdateState(f, measurement, c10) ==
    IF ~f.initialized /\ measurement > 0 /\ c10 > 3
      THEN [x |-> measurement * XScale, P |-> f.P, initialized |-> TRUE, stableCount |-> 0]
    ELSE IF ~f.initialized
      THEN f
    ELSE IF measurement <= 0 \/ c10 < 3
      THEN [f EXCEPT !.P = f.P + KalmanQ]
    ELSE IF Abs(measurement * XScale - f.x) > 1 * XScale
      THEN [f EXCEPT !.stableCount = 0, !.P = f.P + KalmanQ]
    ELSE KalmanStep(f, measurement, c10)

\* BottomKalmanFilter.update(measurement, confidence): the value returned.
KalmanUpdateValue(f, measurement, c10) ==
    IF ~f.initialized /\ measurement > 0 /\ c10 > 3
      THEN measurement
    ELSE IF ~f.initialized
      THEN (IF measurement > 0 THEN measurement ELSE -1)
    ELSE RoundX(KalmanUpdateState(f, measurement, c10).x)

\* calculateBottomConfidence(signalStrength), in tenths.
calculateBottomConfidence(signalStrength) ==
    IF signalStrength >= 200 THEN 10
    ELSE IF signalStrength >= 150 THEN 8
    ELSE IF signalStrength >= 100 THEN 5
    ELSE IF signalStrength >= 50 THEN 2
    ELSE 0

(***************************************************************************)
(* TVG, noise floor, SNR                                                   *)
(***************************************************************************)
TvgScale == 100 * 100

\* applyTVG's compensation factor 10^((20*log10(depth) + 0.15*depth) / 20) with
\* depth = depthIndex / 90 * 10, in units of 1/TvgScale, tabulated for depth
\* indices 0..89 (entry depthIndex + 1).  The entries for depthIndex <= 0 and
\* for depth < 0.5 are 1.0: applyTVG returns raw unchanged there.
TVG_COMPENSATION ==
    <<
       10000, 10000, 10000, 10000, 10000, 5609, 6744, 7883, 9026, 10174,
       11326, 12483, 13644, 14809, 15979, 17153, 18332, 19515, 20703, 21895,
       23092, 24293, 25498, 26709, 27923, 29143, 30367, 31595, 32828, 34066,
       35308, 36555, 37807, 39064, 40325, 41590, 42861, 44136, 45416, 46701,
       47990, 49284, 50583, 51887, 53196, 54509, 55828, 57151, 58479, 59812,
       61150, 62492, 63840, 65193, 66550, 67913, 69281, 70653, 72031, 73414,
       74801, 76194, 77592, 78995, 80403, 81816, 83234, 84658, 86086, 87520,
       88959, 90403, 91852, 93307, 94767, 96232, 97702, 99178, 100659, 102145,
       103637, 105134, 106636, 108144, 109657, 111176, 112700, 114229, 115764, 117304
    >>

\* applyTVG(raw, depthIndex): raw and the result in units of 1/AmpScale.
applyTVG(raw, depthIndex) ==
    IF depthIndex <= 0 \/ raw <= 0 THEN raw
    ELSE IF depthIndex * 10 * 2 < RAW_BINS THEN raw
    ELSE Min(1000 * AmpScale,
             MulDiv(raw, TVG_COMPENSATION[Min(depthIndex, RAW_BINS - 1) + 1], TvgScale))

\* tvgCorrectedValues = allDepthValues.map(...): 255 is kept as it is.
tvgCorrectedValues(allDepthValues) ==
    [idx \in DOMAIN allDepthValues |->
        IF allDepthValues[idx] >= MAX_RAW_SIGNAL THEN allDepthValues[idx] * AmpScale
        ELSE applyTVG(allDepthValues[idx] * AmpScale, idx)]

\* columnData.slice(0, bottomIndex) when bottomIndex > 0, else columnData: the
\* indices of the water column.
WaterColumn(columnData, bottomIndex) ==
    IF bottomIndex > 0 THEN {i \in DOMAIN columnData : i < bottomIndex}
    ELSE DOMAIN columnData

\* The sum of the first k entries of the water column sorted ascending
\* (1 <= k <= Cardinality(W)): everything below the k-th smallest value, plus
\* as many copies of the k-th smallest value as are needed to make k entries.
LowestSum(columnData, W, k) ==
    LET n    == Cardinality(W)
        vals == [i \in 1..n |-> columnData[i - 1]] \o <<>>
        D    == {vals[i] : i \in 1..n}
        below(v) == Cardinality({j \in 1..n : vals[j] < v})
        upto(v)  == Cardinality({j \in 1..n : vals[j] <= v})
        kth  == CHOOSE v \in D : below(v) < k /\ upto(v) >= k
        low  == [i \in 1..n |-> IF vals[i] < kth THEN vals[i] ELSE 0] \o <<>>
    IN  SumRange(low, 1, n) + (k - below(kth)) * kth

\* calculateNoiseFloor taking the mean of the whole water column.
calculateNoiseFloorWholeMean(columnData, bottomIndex) ==
    LET W == WaterColumn(columnData, bottomIndex)
        n == Cardinality(W)
    IN  IF n = 0 THEN 1 * AmpScale
        ELSE Max(1 * AmpScale, FloorDiv(LowestSum(columnData, W, n), n))

\* calculateNoiseFloor(columnData, bottomIndex), in units of 1/AmpScale.
calculateNoiseFloor(columnData, bottomIndex) ==
    LET W == WaterColumn(columnData, bottomIndex)
        n == Cardinality(W)
        lower20Count == Max(1, FloorDiv(n * 2, 10))
    IN  IF n = 0 THEN 1 * AmpScale
        ELSE Max(1 * AmpScale, FloorDiv(LowestSum(columnData, W, lower20Count), lower20Count))

\* calculateSNR(tvgSignal, noiseFloor), in units of 1/SnrScale.
calculateSNR(tvgSignal, noiseFloor) ==
    FloorDiv(tvgSignal * SnrScale, Max(1 * AmpScale, noiseFloor))

(***************************************************************************)
(* Colours                                                                 *)
(***************************************************************************)
Rgba(r, g, b, a) == [r |-> r, g |-> g, b |-> b, a |-> a]

Transparent == Rgba(0, 0, 0, 0)

\* hexToRgba(hex): hex is the tuple of the six hexadecimal digits.
hexToRgba(hex) ==
    Rgba(16 * hex[1] + hex[2], 16 * hex[3] + hex[4], 16 * hex[5] + hex[6], 255)

\* lerpColor(color1, color2, t) with t = tn / td, td > 0.
lerpColor(color1, color2, tn, td) ==
    LET cn == Max(0, Min(td, tn))
        ch(a, b) == RoundDiv(a * td + (b - a) * cn, td)
    IN  Rgba(ch(color1.r, color2.r), ch(color1.g, color2.g),
             ch(color1.b, color2.b), ch(color1.a, color2.a))

\* getFishColorDeeper(snr), snr in units of 1/SnrScale.
getFishColorDeeper(snr) ==
    LET S == SnrScale
        fl(base, n, d, k) == FloorDiv(base * d + n * k, d)
    IN  IF snr < 3 * S THEN Transparent
        ELSE IF snr < 5 * S THEN
            LET n == snr - 3 * S  d == 2 * S
            IN  Rgba(fl(128, n, d, 56), fl(128, n, d, 6), 0, fl(150, n, d, 55))
        ELSE IF snr < 8 * S THEN
            LET n == snr - 5 * S  d == 3 * S
            IN  Rgba(fl(184, n, d, 71), fl(134, n, d, 81), 0, 255)
        ELSE IF snr < 12 * S THEN
            LET n == snr - 8 * S  d == 4 * S
            IN  Rgba(fl(255, n, d, -82), fl(215, n, d, 40), fl(0, n, d, 47), 255)
        ELSE IF snr < 20 * S THEN
            LET n == snr - 12 * S  d == 8 * S
            IN  Rgba(fl(173, n, d, -173), 255, fl(47, n, d, 80), 255)
        ELSE IF snr < 35 * S THEN
            LET n == snr - 20 * S  d == 15 * S
            IN  Rgba(fl(0, n, d, 127), 255, fl(127, n, d, 85), 255)
        ELSE
            LET n == Min(25 * S, snr - 35 * S)  d == 25 * S
            IN  Rgba(fl(127, n, d, 128), 255, fl(212, n, d, 43), 255)

\* A faulty variant of BottomColor: the noise gate of the water column (raw
\* below 0.5 is transparent) applied to the bottom area too.
BottomColorNoiseGated(raw) ==
    IF 2 * raw < AmpScale THEN Transparent
    ELSE hexToRgba(<<8, 11, 4, 5, 1, 3>>)

\* The brown gradient of the bottom area (lines 923-950): raw in 1/AmpScale.
BottomColor(raw) ==
    LET veryLightBrown == hexToRgba(<<13, 2, 11, 4, 8, 12>>)   \* #D2B48C
        lightBrown     == hexToRgba(<<12, 13, 8, 5, 3, 15>>)   \* #CD853F
        mediumBrown    == hexToRgba(<<8, 11, 4, 5, 1, 3>>)     \* #8B4513
        darkBrown      == hexToRgba(<<5, 13, 3, 10, 1, 10>>)   \* #5D3A1A
        \* normalizedSignal = clamp(raw, 0, 255) / 255, kept as n / (255 * AmpScale);
        \* the breakpoints 0.1, 0.4, 0.78 are 25.5, 102, 198.9 in raw units.
        n  == Min(MAX_RAW_SIGNAL * AmpScale, Max(0, raw))
        u  == AmpScale \div 10
    IN  IF n < 255 * u THEN lerpColor(veryLightBrown, lightBrown, n, 255 * u)
        ELSE IF n < 1020 * u THEN lerpColor(lightBrown, mediumBrown, n - 255 * u, 765 * u)
        ELSE IF n < 1989 * u THEN lerpColor(mediumBrown, mediumBrown, n - 1020 * u, 969 * u)
        ELSE lerpColor(mediumBrown, darkBrown, n - 1989 * u, 561 * u)

(***************************************************************************)
(* signalToColorT03Average (0-255 variant): raw bottom detection           *)
(***************************************************************************)
\* The number of samples that are >= 2.0 and < MAX_RAW_SIGNAL (sortedValues.length).
validCount(allDepthValues) ==
    Cardinality({i \in DOMAIN allDepthValues :
                    allDepthValues[i] >= 2 /\ allDepthValues[i] < MAX_RAW_SIGNAL})

first255Index(allDepthValues) ==
    FirstOf({i \in DOMAIN allDepthValues : allDepthValues[i] >= MAX_RAW_SIGNAL})

firstHighIndex(allDepthValues) ==
    FirstOf({i \in DOMAIN allDepthValues : allDepthValues[i] >= NEAR_MAX_THRESHOLD})

\* findBottomEdge(roughBottomIndex): the start of the steepest rise of at least
\* 50 among the steps i -> i+1 for i in searchStart..searchEnd-1.
findBottomEdge(allDepthValues, roughBottomIndex) ==
    IF roughBottomIndex <= 0 THEN roughBottomIndex
    ELSE LET searchStart == Max(0, roughBottomIndex - 5)
             searchEnd   == Min(Len0(allDepthValues) - 1, roughBottomIndex + 2)
             I           == searchStart..(searchEnd - 1)
             gradient(i) == allDepthValues[i + 1] - allDepthValues[i]
             rises       == {i \in I : gradient(i) > 0}
             maxGradient == IF rises = {} THEN 0
                            ELSE gradient(CHOOSE i \in rises :
                                             \A j \in rises : gradient(j) <= gradient(i))
             edgeIndex   == IF rises = {} THEN roughBottomIndex
                            ELSE FirstOf({i \in rises : gradient(i) = maxGradient})
         IN  IF maxGradient >= 50 THEN edgeIndex ELSE roughBottomIndex

\* The roughBottomIndex handed to findBottomEdge: the first index that meets
\* one of the conditions 0-3 of Step 2, else the first 255, else the first
\* 180+; -1 if there is none.
roughBottomIndex(allDepthValues) ==
    LET a    == allDepthValues
        len  == Len0(a)
        met(i) == \/ a[i] >= NEAR_MAX_THRESHOLD
                  \/ a[i] >= 100 /\ a[i + 1] >= 100 /\ a[i + 2] >= 100
                  \/ a[i] >= 100 /\ \E j \in 1..3 : i + j < len /\ a[i + j] >= NEAR_MAX_THRESHOLD
        hit  == FirstOf({i \in 0..(len - 3) : met(i)})
    IN  IF hit # -1 THEN hit
        ELSE IF first255Index(a) # -1 THEN first255Index(a)
        ELSE firstHighIndex(a)

\* Lines 688-775: Step 1 (first 255, first 180+), Step 2 (conditions 0-3 on the
\* first index that meets one of them) and the fallback.  The result is the
\* rawBottomStartIndex and bottomPeakSignal handed to the tracking filter.
DetectBottom(allDepthValues) ==
    LET a      == allDepthValues
        len    == Len0(a)
        f255   == first255Index(a)
        fHigh  == firstHighIndex(a)
        peak1  == IF f255 # -1 THEN MAX_RAW_SIGNAL
                  ELSE IF fHigh # -1 THEN a[fHigh] ELSE 0
        c0(i)  == a[i] >= MAX_RAW_SIGNAL
        c1(i)  == a[i] >= NEAR_MAX_THRESHOLD
        c2(i)  == a[i] >= 100 /\ a[i + 1] >= 100 /\ a[i + 2] >= 100
        near(i) == {j \in 1..3 : i + j < len /\ a[i + j] >= NEAR_MAX_THRESHOLD}
        c3(i)  == a[i] >= 100 /\ near(i) # {}
        hit    == FirstOf({i \in 0..(len - 3) : c0(i) \/ c1(i) \/ c2(i) \/ c3(i)})
        peak2  == IF c0(hit) \/ c1(hit) THEN a[hit]
                  ELSE IF c2(hit) THEN Max(a[hit], Max(a[hit + 1], a[hit + 2]))
                  ELSE Max(peak1, a[hit + FirstOf(near(hit))])
    IN  IF hit # -1
          THEN [rawBottomStartIndex |-> findBottomEdge(a, hit), bottomPeakSignal |-> peak2]
        ELSE IF f255 # -1
          THEN [rawBottomStartIndex |-> findBottomEdge(a, f255),
                bottomPeakSignal |-> MAX_RAW_SIGNAL]
        ELSE IF fHigh # -1
          THEN [rawBottomStartIndex |-> findBottomEdge(a, fHigh),
                bottomPeakSignal |-> a[fHigh]]
        ELSE [rawBottomStartIndex |-> -1, bottomPeakSignal |-> peak1]

\* Lines 789-822: the end of the bottom echo for a bottom start index.
BottomEndIndex(allDepthValues, bottomStartIndex) ==
    LET a      == allDepthValues
        len    == Len0(a)
        val(i) == IF i \in DOMAIN a THEN a[i] ELSE -1
        win    == bottomStartIndex..(Min(bottomStartIndex + 10, len) - 1)
        w255   == FirstOf({i \in win : val(i) >= MAX_RAW_SIGNAL})
        top    == {i \in win : \A j \in win : val(j) <= val(i)}
        peakIndex == IF w255 # -1 THEN w255
                     ELSE IF win = {} \/ val(FirstOf(top)) <= val(bottomStartIndex)
                       THEN bottomStartIndex
                     ELSE FirstOf(top)
        rest   == (peakIndex + 1)..(len - 3)
        stop   == FirstOf({i \in rest : a[i] < 40 /\ a[i + 1] < 40 /\ a[i + 2] < 40})
        upto   == IF stop = -1 THEN rest ELSE {i \in rest : i <= stop}
        strong == {i \in upto : a[i] >= 80}
    IN  IF strong = {} THEN peakIndex
        ELSE CHOOSE i \in strong : \A j \in strong : j <= i

\* getBottomKalmanFilter(columnIndex): the filter of the column, created on
\* first use.
getBottomKalmanFilter(filters, columnIndex) ==
    IF columnIndex \in DOMAIN filters THEN filters[columnIndex] ELSE NewFilter

SetFilter(filters, columnIndex, f) ==
    [k \in DOMAIN filters \cup {columnIndex} |-> IF k = columnIndex THEN f ELSE filters[k]]

\* resetBottomTracking(): bottomKalmanFilters.clear()
resetBottomTracking == [k \in {} |-> NewFilter]

(***************************************************************************)
(* signalToColorT03Average (0-255 variant)                                 *)
(***************************************************************************)
\* T03_DEPTH_AVERAGES in hundredths (entry depthIndex + 1).
T03_DEPTH_AVERAGES ==
    <<
       0, 0, 0, 0, 0, 0, 0, 0, 0, 0,
       0, 0, 0, 0, 0, 0, 0, 0, 0, 0,
       0, 0, 0, 0, 0, 0, 0, 0, 13, 82,
       177, 2973, 2915, 3349, 3721, 4051, 2665, 310, 2, 2,
       0, 3, 0, 0, 0, 0, 0, 0, 0, 0,
       20, 209, 1565, 2278, 607, 435, 883, 11536, 15415, 17472,
       17619, 21257, 21376, 20998, 20859, 1523, 5678, 761, 0, 0,
       0, 0, 0, 0, 0, 46, 0, 0, 0, 0,
       0, 0, 0, 0, 0, 0, 0, 0, 0, 0
    >>

\* Lines 999-1044: the path taken without column values.  raw in 1/AmpScale.
FallbackColor(raw, depthIndex) ==
    LET A       == AmpScale
        clampedDepth == Max(0, Min(RAW_BINS - 1, depthIndex))
        average == T03_DEPTH_AVERAGES[clampedDepth + 1] * (A \div 100)
        orange      == hexToRgba(<<15, 15, 8, 12, 0, 0>>)     \* #FF8C00
        brown       == hexToRgba(<<8, 11, 4, 5, 1, 3>>)       \* #8B4513
        darkYellow  == hexToRgba(<<12, 12, 11, 8, 0, 0>>)     \* #CCB800
        brightYellow == hexToRgba(<<15, 15, 15, 15, 0, 0>>)   \* #FFFF00
    IN  IF 2 * raw < A THEN Transparent
        ELSE IF raw < 2 * A THEN Rgba(7, 7, 7, FloorDiv((2 * raw - A) * 80, 3 * A))
        ELSE IF raw > average + 96 * A
          THEN lerpColor(orange, brown, raw - average - 96 * A, 96 * A)
        ELSE IF raw > average + 64 * A
          THEN lerpColor(darkYellow, brightYellow, raw - average - 64 * A, 32 * A)
        ELSE IF raw > average + 32 * A
          THEN Rgba(20, 20, 0, FloorDiv((raw - average - 32 * A) * 120, 32 * A))
        ELSE IF raw > average + 16 * A
          THEN Rgba(60, 60, 60, FloorDiv((raw - average - 16 * A) * 60, 16 * A))
        ELSE Transparent

\* A faulty variant of isSecondReflection: 30% of the bottom peak instead of 60%.
isSecondReflectionAt30Percent(raw, depthIndex, bottomStartIndex, bottomEndIndex, bottomPeakSignal) ==
    /\ bottomStartIndex # -1
    /\ bottomEndIndex # -1
    /\ depthIndex > bottomEndIndex + 3
    /\ raw > 30 * AmpScale
    /\ raw * 10 < bottomPeakSignal * 3 * AmpScale
    /\ raw < NEAR_MAX_THRESHOLD * AmpScale

\* Lines 834-843: isSecondReflection.
isSecondReflection(raw, depthIndex, bottomStartIndex, bottomEndIndex, bottomPeakSignal) ==
    /\ bottomStartIndex # -1
    /\ bottomEndIndex # -1
    /\ depthIndex > bottomEndIndex + 3
    /\ raw > 30 * AmpScale
    /\ raw * 10 < bottomPeakSignal * 6 * AmpScale
    /\ raw < NEAR_MAX_THRESHOLD * AmpScale

\* A threshold that rises with the sensitivity.
snrThresholdRising(sensitivity) ==
    10 * SnrScale + FloorDiv(sensitivity * 60 * SnrScale, 100)

\* snrThreshold = 70.0 - (sensitivity / 100) * 60.0, in units of 1/SnrScale
snrThreshold(sensitivity) ==
    70 * SnrScale - FloorDiv(sensitivity * 60 * SnrScale, 100)

\* The water column without the amplitude window.
WaterColorNoWindow(raw, depthIndex, allDepthValues, bottomStartIndex, rawRangeMin, rawRangeMax, sensitivity) ==
    LET noiseFloor == calculateNoiseFloor(tvgCorrectedValues(allDepthValues), bottomStartIndex)
        snr        == calculateSNR(applyTVG(raw, depthIndex), noiseFloor)
    IN  IF 2 * raw < AmpScale \/ snr < snrThreshold(sensitivity) THEN Transparent
        ELSE getFishColorDeeper(snr)

\* Lines 958-995: the water column above the bottom.
WaterColor(raw, depthIndex, allDepthValues, bottomStartIndex, rawRangeMin, rawRangeMax, sensitivity) ==
    LET noiseFloor == calculateNoiseFloor(tvgCorrectedValues(allDepthValues), bottomStartIndex)
        tvgSignal  == applyTVG(raw, depthIndex)
        snr        == calculateSNR(tvgSignal, noiseFloor)
        isInSelectedRange == raw >= rawRangeMin * AmpScale /\ raw <= rawRangeMax * AmpScale
        isFullRange == rawRangeMin = 0 /\ rawRangeMax = 255
    IN  IF 2 * raw < AmpScale \/ snr < snrThreshold(sensitivity) THEN Transparent
        ELSE IF ~isFullRange /\ ~isInSelectedRange THEN Transparent
        ELSE getFishColorDeeper(snr)

\* The classifier for a column whose raw detection det = DetectBottom(column)
\* is known.  The result holds the colour returned and the filter map after the
\* call, and the call's local values bottomStartIndex (the stable bottom index),
\* bottomEndIndex and bottomPeakSignal; tracked tells whether the call consulted
\* the tracking filter.
ClassifyDetected(det, raw, depthIndex, allDepthValues, rawRangeMin, rawRangeMax, columnIndex, sensitivity, filters) ==
    IF Len0(allDepthValues) > 0 THEN
        IF validCount(allDepthValues) = 0 THEN
            LET f255 == first255Index(allDepthValues)
            IN  [color |-> IF f255 # -1 /\ depthIndex >= f255
                             THEN hexToRgba(<<8, 11, 4, 5, 1, 3>>)
                             ELSE Transparent,
                 filters |-> filters, tracked |-> FALSE,
                 bottomStartIndex |-> -1, bottomEndIndex |-> -1,
                 bottomPeakSignal |-> det.bottomPeakSignal]
        ELSE
            LET kalmanFilter == getBottomKalmanFilter(filters, columnIndex)
                confidence   == calculateBottomConfidence(det.bottomPeakSignal)
                bottomStartIndex ==
                    KalmanUpdateValue(kalmanFilter, det.rawBottomStartIndex, confidence)
                filters1     == SetFilter(filters, columnIndex,
                    KalmanUpdateState(kalmanFilter, det.rawBottomStartIndex, confidence))
                bottomEndIndex == IF bottomStartIndex # -1
                                    THEN BottomEndIndex(allDepthValues, bottomStartIndex)
                                    ELSE -1
                isBottomArea == bottomStartIndex # -1 /\ depthIndex >= bottomStartIndex
                forceBottomArea == raw >= NEAR_MAX_THRESHOLD * AmpScale /\ bottomStartIndex = -1
            IN  [color |->
                    IF isSecondReflection(raw, depthIndex, bottomStartIndex, bottomEndIndex,
                                          det.bottomPeakSignal)
                      THEN Transparent
                    ELSE IF isBottomArea \/ forceBottomArea THEN BottomColor(raw)
                    ELSE WaterColor(raw, depthIndex, allDepthValues, bottomStartIndex,
                                    rawRangeMin, rawRangeMax, sensitivity),
                 filters |-> filters1, tracked |-> TRUE,
                 bottomStartIndex |-> bottomStartIndex, bottomEndIndex |-> bottomEndIndex,
                 bottomPeakSignal |-> det.bottomPeakSignal]
    ELSE [color |-> FallbackColor(raw, depthIndex), filters |-> filters, tracked |-> FALSE,
          bottomStartIndex |-> -1, bottomEndIndex |-> -1, bottomPeakSignal |-> 0]

\* signalToColorT03Average(raw, depthIndex, allDepthValues, rawRangeMin,
\* rawRangeMax, columnIndex, sensitivity) on the module's filter map.
signalToColorT03Average(raw, depthIndex, allDepthValues, rawRangeMin, rawRangeMax, columnIndex, sensitivity, filters) ==
    ClassifyDetected(DetectBottom(allDepthValues), raw, depthIndex, allDepthValues,
                     rawRangeMin, rawRangeMax, columnIndex, sensitivity, filters)

(***************************************************************************)
(* types/nearby.ts: signalToColorT03Average, the 0-80 variant              *)
(***************************************************************************)
\* The marker value of the 0-80 scale.
LEGACY_MAX == 80

\* T03_DEPTH_AVERAGES of nearby.ts in hundredths (entry depthIndex + 1).
LEGACY_DEPTH_AVERAGES ==
    <<
       0, 2, 1, 1, 1, 1, 2, 1, 1, 2,
       1, 1, 1, 1, 1, 1, 1, 1, 1, 1,
       419, 134, 134, 227, 158, 234, 251, 212, 210, 185,
       271, 391, 702, 634, 758, 719, 676, 728, 715, 740,
       1127, 1857, 3269, 6991, 7974, 7376, 6783, 5664, 5294, 5655,
       5764, 5387, 5494, 5916, 5884, 5780, 6030, 5526, 5447, 5421,
       3484, 5447, 3819, 5392, 3184, 3210, 3769, 3384, 3556, 4953,
       3131, 5012, 4946, 5680, 4431, 7945, 7992, 7952, 7769, 7580,
       6805, 6513, 6241, 5863, 5917, 6668, 6644, 6930, 6806, 2
    >>

\* sortedValues: the samples that are >= 2.0 and < 80, as a sequence.
legacyValid(allDepthValues) ==
    SelectSeq([i \in 1..Len0(allDepthValues) |-> allDepthValues[i - 1]],
              LAMBDA v : v >= 2 /\ v < LEGACY_MAX)

\* sortedValues[index] for 0 <= index < Len(valid).
legacySortedAt(valid, index) ==
    LET D == {valid[i] : i \in 1..Len(valid)}
        below(v) == Cardinality({j \in 1..Len(valid) : valid[j] < v})
        upto(v)  == Cardinality({j \in 1..Len(valid) : valid[j] <= v})
    IN  CHOOSE v \in D : below(v) <= index /\ index < upto(v)

\* Lines 516-573: bottomStartIndex of the 0-80 variant; threshold4 is
\* 4 * BOTTOM_THRESHOLD.
legacyBottomStart(allDepthValues, threshold4) ==
    LET a   == allDepthValues
        len == Len0(a)
        first80Index ==
            FirstOf({i \in 0..(len - 4) : \A k \in 0..3 : a[i + k] >= LEGACY_MAX})
        back == {i \in Max(0, first80Index - 5)..(first80Index - 1) :
                    a[i] > 20 /\ a[i] < LEGACY_MAX}
        sustained ==
            FirstOf({i \in 0..(len - 3) :
                        /\ \A k \in 0..2 : a[i + k] < LEGACY_MAX
                        /\ \A k \in 0..2 : 4 * a[i + k] > threshold4})
    IN  IF first80Index # -1
          THEN (IF back = {} THEN first80Index
                ELSE CHOOSE i \in back : \A j \in back : j <= i)
          ELSE sustained

\* Lines 702-752: the colours above the bottom; raw and average in 1/AmpScale.
legacyWaterColor(raw, aboveBottomAverage) ==
    LET A   == AmpScale
        difference == raw - aboveBottomAverage
        minFishThreshold == Max(FloorDiv(aboveBottomAverage * 7, 2), 5 * A)
        num == raw - minFishThreshold
        den == Max(minFishThreshold, 10 * A)
        en  == Min(den, num)                 \* excessRatio = en / den
        darkYellow   == hexToRgba(<<12, 12, 11, 8, 0, 0>>)       \* #CCB800
        brightYellow == hexToRgba(<<15, 15, 15, 15, 0, 0>>)     \* #FFFF00
        limeGreen    == hexToRgba(<<9, 10, 12, 11, 9, 10>>)     \* #9acb9aff
        brightGreen  == hexToRgba(<<15, 15, 15, 15, 15, 15>>)   \* #ffffffff
        dn  == Abs(difference)               \* deficitRatio = dn / dd
        dd  == Max(aboveBottomAverage, 1 * A)
    IN  IF raw > minFishThreshold THEN
            IF 4 * en > 3 * den THEN lerpColor(limeGreen, brightGreen, 4 * en - 3 * den, den)
            ELSE IF 2 * en > den THEN lerpColor(brightYellow, limeGreen, 4 * en - 2 * den, den)
            ELSE IF 4 * en > den THEN lerpColor(darkYellow, brightYellow, 4 * en - den, den)
            ELSE Rgba(darkYellow.r, darkYellow.g, darkYellow.b,
                      FloorDiv(150 * den + 4 * en * 105, den))
        ELSE IF difference > 0 THEN
            Rgba(20, 20, 0, Min(100, FloorDiv(raw * 80, minFishThreshold)))
        ELSE IF 10 * dn < 3 * dd THEN
            Rgba(40, 40, 40, FloorDiv((3 * dd - 10 * dn) * 60, 3 * dd))
        ELSE Rgba(7, 7, 7, Max(10, 40 - FloorDiv(dn * 30, dd)))

\* Lines 757-797: the path taken without column values.
legacyFallbackColor(raw, depthIndex) ==
    LET A       == AmpScale
        clampedDepth == Max(0, Min(RAW_BINS - 1, depthIndex))
        average == LEGACY_DEPTH_AVERAGES[clampedDepth + 1] * (A \div 100)
    IN  IF raw > average + 30 * A
          THEN lerpColor(hexToRgba(<<15, 15, 8, 12, 0, 0>>), hexToRgba(<<8, 11, 4, 5, 1, 3>>),
                         raw - average - 30 * A, 30 * A)
        ELSE IF raw > average + 20 * A
          THEN lerpColor(hexToRgba(<<12, 12, 11, 8, 0, 0>>), hexToRgba(<<15, 15, 15, 15, 0, 0>>),
                         raw - average - 20 * A, 10 * A)
        ELSE IF raw > average + 10 * A
          THEN Rgba(20, 20, 0, FloorDiv((raw - average - 10 * A) * 120, 10 * A))
        ELSE IF raw > average + 5 * A
          THEN Rgba(60, 60, 60, FloorDiv((raw - average - 5 * A) * 60, 5 * A))
        ELSE Transparent

\* signalToColorT03Average(raw, depthIndex, allDepthValues) of nearby.ts; raw in
\* 1/AmpScale.  bottomEndIndex and secondReflectionStartIndex are computed by
\* the code for its debug log only and do not reach the colour.
legacySignalToColorT03Average(raw, depthIndex, allDepthValues) ==
    LET A     == AmpScale
        a     == allDepthValues
        valid == legacyValid(a)
        validLength == Len(valid)
        p75   == legacySortedAt(valid, FloorDiv(validLength * 75, 100))
        p90   == legacySortedAt(valid, FloorDiv(validLength * 9, 10))
        maxSignal  == legacySortedAt(valid, validLength - 1)
        threshold4 == Max(4 * p90, 3 * maxSignal)
        bottomStartIndex == legacyBottomStart(a, threshold4)
        upperLimit == IF bottomStartIndex # -1 THEN bottomStartIndex ELSE Len0(a)
        counted == [i \in 1..upperLimit |-> IF a[i - 1] < LEGACY_MAX THEN a[i - 1] ELSE 0] \o <<>>
        count == Cardinality({i \in 0..(upperLimit - 1) : a[i] < LEGACY_MAX})
        aboveBottomAverage == IF count > 0 THEN FloorDiv(SumRange(counted, 1, upperLimit) * A, count)
                              ELSE p75 * A
    IN  IF 2 * raw < A THEN Transparent
        ELSE IF raw < 2 * A THEN Rgba(7, 7, 7, FloorDiv((2 * raw - A) * 80, 3 * A))
        ELSE IF Len0(a) = 0 THEN legacyFallbackColor(raw, depthIndex)
        ELSE IF validLength = 0 THEN Transparent
        ELSE IF bottomStartIndex # -1 /\ depthIndex >= bottomStartIndex
          THEN lerpColor(hexToRgba(<<13, 12, 8, 12, 1, 14>>),     \* #DC8C1E
                         hexToRgba(<<5, 10, 1, 15, 0, 15>>),      \* #5A1F0F
                         Min(LEGACY_MAX * A, Max(0, raw)), LEGACY_MAX * A)
        ELSE legacyWaterColor(raw, aboveBottomAverage)

(***************************************************************************)
(* Input columns: 90-bin pings (scanData)                                  *)
(***************************************************************************)
Bins == 0..(RAW_BINS - 1)

\* A column that is v on lo..hi and the given background elsewhere.
Block(base, lo, hi, v) == [i \in DOMAIN base |-> IF lo <= i /\ i <= hi THEN v ELSE base[i]]

Silent == [i \in Bins |-> 0]

ColumnIds ==
    {"flat255", "second", "fish", "fishHigh", "weak", "deep", "noisy", "empty"}

Column(id) ==
    CASE id = "flat255"  -> Block(Silent, 40, 89, 255)
      [] id = "second"   -> Block(Block(Silent, 40, 49, 200), 80, 89, 80)
      [] id = "fish"     -> Block(Block(Silent, 20, 22, 90), 60, 89, 200)
      [] id = "fishHigh" -> Block(Block(Silent, 20, 22, 200), 60, 89, 200)
      [] id = "weak"     -> Block(Silent, 30, 35, 60)
      [] id = "deep"     -> Block(Silent, 84, 89, 220)
      [] id = "noisy"    -> Block(Block([i \in Bins |-> 5], 25, 25, 70), 41, 89, 200)
      [] id = "empty"    -> [i \in {} |-> 0]
      [] id = "alternating" -> [i \in Bins |-> (i % 2) * 200]
      \* a column with no value of 2 or more
      [] id = "faint"    -> Block(Silent, 10, 30, 1)
      \* columns with sentinel bins at the surface and from a shallow bottom on
      [] id = "sentinelSurface" -> Block(Block([i \in Bins |-> 3], 0, 0, 255), 60, 89, 200)
      [] id = "sentinelShallow" -> Block([i \in Bins |-> 3], 10, 89, 255)
      \* columns on the 0-80 scale
      [] id = "legacyFlat80"    -> Block(Silent, 40, 89, 80)
      [] id = "legacyMixed"     -> Block(Block(Silent, 30, 32, 10), 40, 89, 80)
      [] id = "legacySustained" -> Block(Block([i \in Bins |-> 5], 50, 89, 70), 60, 64, 78)

(***************************************************************************)
(* sonarDataConverter.ts                                                   *)
(***************************************************************************)
\* The target positions i at which (i / targetDepth) * 90, computed in double
\* precision, comes out just below the whole number i * 90 / targetDepth, so
\* that Math.floor gives the sample before.
FloorsBelow(targetDepth) ==
    CASE targetDepth = 144 -> {}
      [] targetDepth = 360 -> {52, 104, 196, 208, 252}
      [] targetDepth = 720 -> {104, 208, 392, 416, 504}

\* For 90 samples: by <<targetDepth, value0, value1>>, the target positions at
\* which value0 * (1 - fraction) + value1 * fraction, computed in double
\* precision, comes out just below the whole number the exact interpolation
\* gives, so that Math.floor gives one less.  Tabulated for the pairs of
\* different neighbouring values of the pings that are expanded; equal
\* neighbours are interpolated exactly.
RoundsBelow ==
    (<<144, 0, 60>> :> {46, 74, 92})
    @@ (<<144, 0, 80>> :> {23, 37, 46, 74, 83, 92, 101})
    @@ (<<144, 0, 90>> :> {92})
    @@ (<<144, 0, 200>> :> {23, 37, 46, 74, 83, 92, 101})
    @@ (<<144, 0, 220>> :> {46, 74, 92})
    @@ (<<144, 5, 70>> :> {})
    @@ (<<144, 5, 200>> :> {})
    @@ (<<144, 60, 0>> :> {22, 44, 88})
    @@ (<<144, 70, 5>> :> {88})
    @@ (<<144, 90, 0>> :> {44, 88})
    @@ (<<144, 200, 0>> :> {11, 22, 44, 79, 88, 97})
    @@ (<<360, 0, 60>> :> {13, 26, 49, 52, 63, 98, 104, 109, 115, 126, 185, 196,
              207, 208, 218, 219, 230, 241, 252, 253})
    @@ (<<360, 0, 80>> :> {13, 26, 49, 52, 63, 98, 104, 109, 115, 126, 185, 196,
              207, 208, 218, 219, 230, 241, 252, 253})
    @@ (<<360, 0, 90>> :> {26, 52, 98, 104, 126, 196, 208, 218, 230, 252})
    @@ (<<360, 0, 200>> :> {13, 26, 49, 52, 63, 98, 104, 109, 115, 126, 185,
              196, 207, 208, 218, 219, 230, 241, 252, 253})
    @@ (<<360, 0, 220>> :> {13, 26, 49, 52, 63, 98, 104, 109, 115, 126, 185,
              196, 207, 208, 218, 219, 230, 241, 252, 253})
    @@ (<<360, 5, 70>> :> {52, 104, 196, 208, 252})
    @@ (<<360, 5, 200>> :> {52, 104, 196, 208, 252})
    @@ (<<360, 60, 0>> :> {29, 55, 58, 93, 99, 110, 116, 121, 127, 186, 187,
              197, 198, 209, 220, 231, 232, 242, 243, 254})
    @@ (<<360, 70, 5>> :> {116, 220, 232})
    @@ (<<360, 90, 0>> :> {58, 110, 116, 186, 198, 220, 232, 242, 254})
    @@ (<<360, 200, 0>> :> {29, 55, 58, 93, 99, 110, 116, 121, 127, 186, 187,
              197, 198, 209, 220, 231, 232, 242, 243, 254})
    @@ (<<720, 0, 60>> :> {26, 52, 98, 104, 126, 196, 208, 218, 230, 252, 370,
              392, 414, 416, 436, 438, 460, 482, 504, 506})
    @@ (<<720, 0, 80>> :> {13, 26, 49, 52, 63, 98, 104, 109, 115, 126, 185, 196,
              207, 208, 218, 219, 230, 241, 252, 253, 369, 370, 371, 391,
              392, 393, 414, 415, 416, 436, 437, 438, 459, 460, 461, 481,
              482, 483, 504, 505, 506})
    @@ (<<720, 0, 90>> :> {52, 104, 196, 208, 252, 392, 416, 436, 460, 504})
    @@ (<<720, 0, 200>> :> {13, 26, 49, 52, 63, 98, 104, 109, 115, 126, 185,
              196, 207, 208, 218, 219, 230, 241, 252, 253, 369, 370, 371,
              391, 392, 393, 414, 415, 416, 436, 437, 438, 459, 460, 461,
              481, 482, 483, 504, 505, 506})
    @@ (<<720, 0, 220>> :> {26, 52, 98, 104, 126, 196, 208, 218, 230, 252, 370,
              392, 414, 416, 436, 438, 460, 482, 504, 506})
    @@ (<<720, 5, 70>> :> {104, 208, 392, 416, 504})
    @@ (<<720, 5, 200>> :> {104, 208, 392, 416, 504})
    @@ (<<720, 60, 0>> :> {58, 110, 116, 186, 198, 220, 232, 242, 254, 372, 374,
              394, 396, 418, 440, 462, 464, 484, 486, 508})
    @@ (<<720, 70, 5>> :> {232, 440, 464})
    @@ (<<720, 90, 0>> :> {116, 220, 232, 372, 396, 440, 464, 484, 508})
    @@ (<<720, 200, 0>> :> {29, 55, 58, 93, 99, 110, 116, 121, 127, 186, 187,
              197, 198, 209, 220, 231, 232, 242, 243, 254, 372, 373, 374,
              394, 395, 396, 417, 418, 419, 439, 440, 441, 462, 463, 464,
              484, 485, 486, 507, 508, 509})

\* index0 = Math.floor((i / targetDepth) * length), for no or 90 samples
SourceIndex0(length, targetDepth, i) ==
    CASE length = 0        -> 0
      [] length = RAW_BINS -> (i * length) \div targetDepth
                                - (IF i \in FloorsBelow(targetDepth) THEN 1 ELSE 0)

\* expandSonarSamples adding the weighted second sample to the whole first.
expandSonarSamplesUnweighted(samples, targetDepth) ==
    [i \in 0..(targetDepth - 1) |->
        LET length == Len0(samples)
            index0 == (i * length) \div targetDepth
            index1 == Min(length - 1, index0 + 1)
            rest   == (i * length) % targetDepth
        IN  Min(255, samples[index0] + FloorDiv(samples[index1] * rest, targetDepth))]

\* expandSonarSamples(samples, targetDepth): entry i interpolates linearly
\* between samples[index0] and samples[index1] with the fraction sourceIndex -
\* index0, floors, and caps at 255.  The fraction is (i * length mod
\* targetDepth) / targetDepth, or just under 1 where index0 is the sample
\* before.
expandSonarSamples(samples, targetDepth) ==
    [i \in 0..(targetDepth - 1) |->
        LET length == Len0(samples)
            index0 == SourceIndex0(length, targetDepth, i)
            index1 == Min(length - 1, index0 + 1)
            rest   == IF index0 * targetDepth + targetDepth <= i * length
                        THEN targetDepth
                        ELSE (i * length) % targetDepth
            value0 == IF index0 \in DOMAIN samples THEN samples[index0] ELSE 0
            value1 == IF index1 \in DOMAIN samples THEN samples[index1] ELSE 0
            exact  == FloorDiv(value0 * (targetDepth - rest) + value1 * rest, targetDepth)
            interpolated ==
                IF value0 # value1 /\ i \in RoundsBelow[<<targetDepth, value0, value1>>]
                  THEN exact - 1
                  ELSE exact
        IN  Min(255, interpolated)]

\* createRenderPacket(samples, depthSamples)
createRenderPacket(samples, depthSamples) ==
    IF Len0(samples) = 0 THEN [i \in 0..(depthSamples - 1) |-> 0]
    ELSE expandSonarSamples(samples, depthSamples)

(***************************************************************************)
(* RadarCanvas.tsx: geometry                                               *)
(***************************************************************************)
Modes == {"144", "360", "720"}

columnWidthMap(mode) ==
    CASE mode = "144" -> 4
      [] mode = "360" -> 2
      [] mode = "720" -> 1

depthSamplesMap(mode) ==
    CASE mode = "144" -> 144
      [] mode = "360" -> 360
      [] mode = "720" -> 720

MAX_RENDER_PIXELS == 200

\* The props width and height of the canvas: four pixel columns (four, two or
\* one ping columns, by mode) of two pixel rows.
CanvasWidth == 2 * 2

CanvasHeight == 1 + 1

Rows == 0..(CanvasHeight - 1)

\* downsample = Math.max(1, Math.floor(depthSamples / MAX_RENDER_PIXELS))
downsampleOf(depthSamples) == Max(1, depthSamples \div MAX_RENDER_PIXELS)

\* pixelHeight = Math.ceil((downsample / depthSamples) * height * 1.2)
pixelHeightOf(depthSamples) ==
    CeilDiv(downsampleOf(depthSamples) * CanvasHeight * 12, depthSamples * 10)

\* y = Math.floor((d / depthSamples) * height)
rowTop(d, depthSamples) == (d * CanvasHeight) \div depthSamples

\* The values d of the loop "for (d = 0; d < depthSamples; d += downsample)".
DepthSteps(depthSamples) ==
    {d \in 0..(depthSamples - 1) : d % downsampleOf(depthSamples) = 0}

\* The pixel rows step d writes: py < pixelHeight, cut at drawY >= height.
RowsOfStep(d, depthSamples) ==
    {r \in Rows : rowTop(d, depthSamples) <= r
                  /\ r < rowTop(d, depthSamples) + pixelHeightOf(depthSamples)}

\* For each mode, the sequence of the classifier calls of one renderColumn
\* whose colour is still in the buffer when the column is done (the last
\* write of each pixel), in the order of the calls.  A call is the record of
\* its pixel row r, its pixel px within the column, its step d and the
\* number k of the calls the column made before it.
SurvivingCalls ==
    [mode \in Modes |->
        LET ds == depthSamplesMap(mode)
            cw == columnWidthMap(mode)
            steps == DepthSteps(ds)
            writer(r) == CHOOSE d \in steps :
                            /\ r \in RowsOfStep(d, ds)
                            /\ \A e \in steps : r \in RowsOfStep(e, ds) => e <= d
            \* the calls of the steps before d, for one pixel of the width
            before(d) == Cardinality({p \in steps \X Rows :
                                         p[1] < d /\ p[2] \in RowsOfStep(p[1], ds)})
            calls == {[r |-> r, px |-> px, d |-> writer(r),
                       k |-> cw * before(writer(r))
                             + px * Cardinality(RowsOfStep(writer(r), ds))
                             + (r - rowTop(writer(r), ds))] :
                         r \in Rows, px \in 0..(cw - 1)}
        IN  [n \in 1..Cardinality(calls) |->
                CHOOSE c \in calls : Cardinality({b \in calls : b.k < c.k}) = n - 1] \o <<>>] @@ <<>>

\* The number of classifier calls one renderColumn makes.
CallsPerColumn ==
    [mode \in Modes |->
        LET ds == depthSamplesMap(mode)
        IN  columnWidthMap(mode)
              * Cardinality({p \in DepthSteps(ds) \X Rows : p[2] \in RowsOfStep(p[1], ds)})] @@ <<>>

(***************************************************************************)
(* RadarCanvas.tsx: the time patterns of renderColumn                      *)
(***************************************************************************)
\* performance.now() is read while a frame is drawn.  The frames of a run read
\* the times 2.0 s, 3.7 s, 5.4 s, 7.1 s, 8.8 s, 10.5 s (reading n for frame n);
\* the table holds, for each step d that writes a surviving pixel and each
\* reading, the three patterns in hundredths of a signal unit:
\*   sin(0.6 d + 0.06 t) * 8 + sin(1.8 d + 0.12 t) * 5 + sin(0.2 d + 0.03 t) * 3
\*   sin(0.8 d + 4 t) * 6
\*   |sin(0.2 d / depthSamples + 0.1 t)| * 3
TimePattern ==
    <<144, 71>> :> << <<-118, 553, 88>>, <<-172, 366, 135>>, <<-230, 84, 179>>, <<-289, -221, 217>>, <<-345, -468, 249>>, <<-394, -592, 274>> >> @@
    <<144, 143>> :> << <<-810, 73, 116>>, <<-757, -231, 162>>, <<-700, -474, 202>>, <<-644, -594, 237>>, <<-591, -558, 264>>, <<-545, -377, 285>> >> @@
    <<360, 179>> :> << <<685, 236, 88>>, <<689, 477, 136>>, <<671, 595, 179>>, <<634, 556, 217>>, <<580, 373, 249>>, <<512, 92, 274>> >> @@
    <<360, 359>> :> << <<542, -66, 117>>, <<581, 238, 162>>, <<622, 479, 202>>, <<662, 595, 237>>, <<698, 556, 265>>, <<726, 371, 285>> >> @@
    <<720, 357>> :> << <<1188, -594, 88>>, <<1190, -558, 136>>, <<1168, -375, 179>>, <<1124, -95, 217>>, <<1061, 210, 249>>, <<984, 460, 274>> >> @@
    <<720, 717>> :> << <<-25, -237, 117>>, <<-197, -478, 162>>, <<-371, -595, 202>>, <<-543, -556, 237>>, <<-707, -372, 264>>, <<-858, -91, 285>> >>

\* The reading of the clock taken for a frame: reading n for frame n.
ClockOf(frame) == ((frame - 1) % Len(TimePattern[<<144, 71>>])) + 1

\* Lines 89-114: the signal of step d, in hundredths.
PixelSignal(renderData, d, depthSamples, clock) ==
    LET group == {d + i : i \in 0..(downsampleOf(depthSamples) - 1)} \cap (0..(depthSamples - 1))
        maxSignal == 100 * (CHOOSE v \in {renderData[e] : e \in group} \cup {0} :
                               \A e \in group : renderData[e] <= v)
        pattern == TimePattern[<<depthSamples, d>>][clock]
        deep   == IF d * 10 > 8 * depthSamples THEN maxSignal + pattern[1] ELSE maxSignal
        wave   == IF deep > 180 * 100 THEN deep + pattern[2] ELSE deep
        thermo == IF wave < 96 * 100 THEN wave + pattern[3] ELSE wave
    IN  Max(0, Min(255 * 100, thermo))

(***************************************************************************)
(* RadarCanvas.tsx: renderColumn and the render effect                     *)
(***************************************************************************)
\* The element of a one-element set.  One({e(x) : x \in {v}}) is e(v) with the
\* value v computed once.
One(S) == CHOOSE result \in S : TRUE

\* n successive calls update(measurement, confidence) of one column's filter:
\* every classifier call of a renderColumn hands it the same measurement.
\* The calls that leave x alone (lines 47-59: no measurement, low confidence,
\* outlier) are taken together, as are the calls after one that changes
\* nothing.
RECURSIVE KalmanUpdateTimes(_, _, _, _)
KalmanUpdateTimes(f, measurement, c10, n) ==
    IF n <= 0 THEN f
    ELSE IF ~f.initialized /\ ~(measurement > 0 /\ c10 > 3) THEN f
    ELSE IF f.initialized /\ (measurement <= 0 \/ c10 < 3)
      THEN [f EXCEPT !.P = f.P + n * KalmanQ]
    ELSE IF f.initialized /\ Abs(measurement * XScale - f.x) > 1 * XScale
      THEN [f EXCEPT !.stableCount = 0, !.P = f.P + n * KalmanQ]
    ELSE IF n = 1 \/ KalmanUpdateState(f, measurement, c10) = f
      THEN KalmanUpdateState(f, measurement, c10)
    ELSE One({KalmanUpdateTimes(g, measurement, c10, n - n \div 2) :
                 g \in {KalmanUpdateTimes(f, measurement, c10, n \div 2)}})

\* The filter before each of the calls of the sequence, from the filter f
\* before the call number from.
RECURSIVE FiltersBefore(_, _, _, _, _, _)
FiltersBefore(f, measurement, c10, calls, j, from) ==
    IF j > Len(calls) THEN <<>>
    ELSE One({<<g>> \o FiltersBefore(g, measurement, c10, calls, j + 1, calls[j].k) :
                 g \in {KalmanUpdateTimes(f, measurement, c10, calls[j].k - from)}})

\* A pixel column of the buffer: the RGBA cells of its rows (entry row + 1),
\* and what drew it: the ping (file and index), the resolution mode and the
\* frame.  Background carries no ping and no mode.
NoPing == [file |-> "none", index |-> -1]

PixelColumn(rgba, ping, mode, frame) ==
    [rgba |-> rgba, ping |-> ping, mode |-> mode, frame |-> frame]

\* The canvas element before anything is put on it: transparent black.
BlankCanvas ==
    [x \in 1..CanvasWidth |->
        PixelColumn([r \in 1..CanvasHeight |-> Transparent] \o <<>>, NoPing, "none", 0)]
      \o <<>>

\* createImageData followed by the fill of lines 186-192 (colorMode is
\* t03Average: bgColor = 0, alpha 255).
BackgroundCanvas(frame) ==
    [x \in 1..CanvasWidth |->
        PixelColumn([r \in 1..CanvasHeight |-> Rgba(0, 0, 0, 255)] \o <<>>,
                    NoPing, "none", frame)] \o <<>>

\* The loop of renderColumn (lines 88-162) for a ping whose raw detection
\* det = DetectBottom(scanData) is known, for a classifier that is called
\* with the given amplitude range and sensitivity.
renderDetectedWith(det, scanData, mode, clock, filters, rawRangeMin, rawRangeMax, sensitivity) ==
    LET depthSamples == depthSamplesMap(mode)
        columnWidth  == columnWidthMap(mode)
        renderData   == createRenderPacket(scanData, depthSamples)
        tracked      == Len0(scanData) > 0 /\ validCount(scanData) > 0
        confidence   == calculateBottomConfidence(det.bottomPeakSignal)
        calls        == SurvivingCalls[mode]
        first        == getBottomKalmanFilter(filters, 0)
        \* raw = signal / 3.2
        raw(c)       == FloorDiv(PixelSignal(renderData, c.d, depthSamples, clock) * AmpScale,
                                 320)
        \* originalDepthIndex = Math.floor((d / depthSamples) * 90)
        originalDepthIndex(c) == SourceIndex0(RAW_BINS, depthSamples, c.d)
        callOf(px, r) == CHOOSE j \in 1..Len(calls) : calls[j].px = px /\ calls[j].r = r
        last         == Len(calls)
    IN  One({LET colour(j) ==
                        ClassifyDetected(det, raw(calls[j]), originalDepthIndex(calls[j]),
                                         scanData, rawRangeMin, rawRangeMax, 0, sensitivity,
                                         IF tracked THEN SetFilter(filters, 0, before[j])
                                                    ELSE filters).color
                IN  [columns |->
                        [p \in 1..columnWidth |->
                            [r \in 1..CanvasHeight |-> colour(callOf(p - 1, r - 1))] \o <<>>]
                          \o <<>>,
                     filters |->
                        IF tracked
                          THEN SetFilter(filters, 0,
                                   KalmanUpdateTimes(before[last], det.rawBottomStartIndex,
                                                     confidence,
                                                     CallsPerColumn[mode]
                                                       - calls[last].k))
                          ELSE filters] :
             before \in {IF tracked
                           THEN FiltersBefore(first, det.rawBottomStartIndex, confidence,
                                              calls, 1, 0)
                           ELSE [j \in 1..Len(calls) |-> first] \o <<>>}})

\* renderColumn's loop as the source has it: the classifier is called as
\* signalToColorT03Average(raw, originalDepthIndex, rawDepthValues), so with
\* range 0..255, columnIndex 0 and sensitivity 50.
renderDetected(det, scanData, mode, clock, filters) ==
    renderDetectedWith(det, scanData, mode, clock, filters, 0, MAX_RAW_SIGNAL, 50)

\* renderColumn(pixelData, packet, xPosition, columnWidth, depthSamples) with
\* colorMode t03Average: the colours left in the columnWidth pixel columns
\* (entry px + 1), and the filter map after the calls.
renderColumn(scanData, mode, clock, filters) ==
    One({One({renderDetected(det, samples, mode, clock, filters) :
                 det \in {DetectBottom(samples)}}) :
            samples \in {scanData}})

\* The pixel data after renderColumn at xPosition (0-based) for the ping.
DrawColumn(pixelData, filters, scanData, ping, xPosition, mode, frame) ==
    One({[pixelData |->
            [x \in 1..CanvasWidth |->
                IF xPosition < x /\ x <= xPosition + columnWidthMap(mode)
                  THEN PixelColumn(drawn.columns[x - xPosition], ping, mode, frame)
                  ELSE pixelData[x]] \o <<>>,
         filters |-> drawn.filters] :
            drawn \in {renderColumn(scanData, mode, ClockOf(frame), filters)}})

\* A faulty variant of ShiftLeft: the shift is by one pixel.
ShiftLeftByOnePixel(pixelData, columnWidth) ==
    [x \in 1..CanvasWidth |->
        IF x <= CanvasWidth - columnWidth THEN pixelData[x + 1] ELSE pixelData[x]] \o <<>>

\* Lines 214-223: pixel (x, y) takes the value of (x + columnWidth, y) for
\* x < width - columnWidth; the rightmost columnWidth columns keep theirs
\* until the new column is drawn.
ShiftLeft(pixelData, columnWidth) ==
    [x \in 1..CanvasWidth |->
        IF x <= CanvasWidth - columnWidth THEN pixelData[x + columnWidth]
        ELSE pixelData[x]] \o <<>>

\* A faulty variant of isSeekOrReset: a render at the watermark itself is not
\* taken for a seek.
isSeekOrResetStrictlyBehind(index, lastRenderedIndexRef) ==
    \/ index < lastRenderedIndexRef
    \/ lastRenderedIndexRef = -1
    \/ index - lastRenderedIndexRef > 1

\* Line 178.
isSeekOrReset(index, lastRenderedIndexRef) ==
    \/ index <= lastRenderedIndexRef
    \/ lastRenderedIndexRef = -1
    \/ index - lastRenderedIndexRef > 1

\* Lines 200-203: packetsToRender.forEach, from entry i (0-based) on.
RECURSIVE RenderPackets(_, _, _, _, _, _, _, _)
RenderPackets(pixelData, filters, file, packetsToRender, startIndex, i, mode, frame) ==
    IF i >= Len(packetsToRender) THEN [pixelData |-> pixelData, filters |-> filters]
    ELSE One({RenderPackets(done.pixelData, done.filters, file, packetsToRender,
                            startIndex, i + 1, mode, frame) :
                 done \in {DrawColumn(pixelData, filters, packetsToRender[i + 1],
                                      [file |-> file, index |-> startIndex + i],
                                      CanvasWidth - (Len(packetsToRender) - i)
                                                      * columnWidthMap(mode),
                                      mode, frame)}})

\* The render effect (lines 166-231) for the props of a render: the branch
\* taken, the pixel data on the canvas, the filter map and the watermark after
\* it.  packetList is the sequence of the pings' scanData.
RenderEffect(pixelData, filters, lastRenderedIndexRef, file, packetList, index, mode, frame) ==
    LET columnWidth == columnWidthMap(mode)
        numColumns  == CanvasWidth \div columnWidth
        hasPacket   == index >= 0 /\ index < Len(packetList)
        startIndex  == Max(0, index - numColumns + 1)
        \* packets.slice(startIndex, currentIndex + 1)
        packetsToRender == SubSeq(packetList, startIndex + 1,
                                  Min(index + 1, Len(packetList)))
    IN  IF isSeekOrReset(index, lastRenderedIndexRef) \/ Len(packetList) = 0 THEN
            One({[branch |-> "rebuild", pixelData |-> done.pixelData,
                  filters |-> done.filters, lastRenderedIndexRef |-> index] :
                 done \in {IF Len(packetList) > 0 /\ index >= 0
                             THEN RenderPackets(BackgroundCanvas(frame), filters, file,
                                                packetsToRender, startIndex, 0, mode, frame)
                             ELSE [pixelData |-> BackgroundCanvas(frame),
                                   filters |-> filters]}})
        ELSE IF hasPacket /\ index > lastRenderedIndexRef THEN
            One({[branch |-> "sequential", pixelData |-> done.pixelData,
                  filters |-> done.filters, lastRenderedIndexRef |-> index] :
                 done \in {DrawColumn(ShiftLeft(pixelData, columnWidth), filters,
                                      packetList[index + 1],
                                      [file |-> file, index |-> index],
                                      CanvasWidth - columnWidth, mode, frame)}})
        ELSE [branch |-> "skipped", pixelData |-> pixelData, filters |-> filters,
              lastRenderedIndexRef |-> lastRenderedIndexRef]

(***************************************************************************)
(* State                                                                   *)
(***************************************************************************)
VARIABLES
    bottomKalmanFilters,   \* colorMapping.ts: Map columnIndex -> BottomKalmanFilter
    lastCall,              \* the last classifier call: arguments, result, local values
    nCalls,                \* the number of classifier calls made so far
    packets,               \* MobileViewer: the packets state (the file and its load number)
    resolutionMode,        \* MobileViewer: metadata.resolution
    isPlaying,             \* useRadarPlayer: isPlaying
    currentIndex,          \* useRadarPlayer: currentIndex
    rendered,              \* the state the last React render was made with
    lastRenderedIndex,     \* RadarCanvas: lastRenderedIndexRef.current
    canvas,                \* RadarCanvas: the pixel data on the canvas
    nFrames,               \* the number of runs of the render effect so far
    lastRender,            \* the last run of the render effect: props, branch, state before
    shots                  \* the first frame of a seek to each index made right after a reset

classifierVars == <<bottomKalmanFilters, lastCall, nCalls>>

viewerVars == <<packets, resolutionMode, isPlaying, currentIndex, rendered,
                lastRenderedIndex, canvas, nFrames, lastRender, shots>>

vars == <<bottomKalmanFilters, lastCall, nCalls, packets, resolutionMode, isPlaying,
          currentIndex, rendered, lastRenderedIndex, canvas, nFrames, lastRender, shots>>

(***************************************************************************)
(* The viewer: files, and the state before RadarCanvas is mounted          *)
(***************************************************************************)
FileIds == {"A", "B"}

\* The parsed packets of a file: the ids of its pings' scanData.
FilePings(file) ==
    CASE file = "A" -> <<"fish", "noisy", "second">>
      [] file = "B" -> <<"deep", "weak">>
      [] OTHER      -> <<>>

\* packets.map(p => p.scanData), for each file
PacketTable ==
    [file \in FileIds |->
        [i \in 1..Len(FilePings(file)) |-> Column(FilePings(file)[i]) @@ <<>>] \o <<>>] @@ <<>>

PacketList(file) == PacketTable[file]

NotRendered == [mounted |-> FALSE]

NoRender == [branch |-> "none"]

NoShots == [index \in {} |-> BlankCanvas]

\* MobileViewer in the state 'waiting': no packets, RadarCanvas not mounted.
ViewerWaiting ==
    /\ packets = [file |-> "none", serial |-> 0]
    /\ resolutionMode = "360"
    /\ isPlaying = FALSE
    /\ currentIndex = 0
    /\ rendered = NotRendered
    /\ lastRenderedIndex = -1
    /\ canvas = BlankCanvas
    /\ nFrames = 0
    /\ lastRender = NoRender
    /\ shots = NoShots

\* The number of classifier calls a behaviour makes.
MaxCalls == 2

\* The bins a call is made for: surface, the spike, the bottom starts and the
\* bins inside and past the bottom echoes of the columns above.
DepthProbe == {0, 20, 39, 45, 52, 59, 70, 85}

\* The raw amplitudes a call is made with: the column's own value at the bin
\* and two values the display pipeline can hand over instead of it.
RawProbe(id, depthIndex) ==
    {0, 80} \cup (IF depthIndex \in DOMAIN Column(id) THEN {Column(id)[depthIndex]} ELSE {})

NoCall == [made |-> FALSE]

InitClassifier ==
    /\ bottomKalmanFilters = resetBottomTracking
    /\ lastCall = NoCall
    /\ nCalls = 0
    /\ ViewerWaiting

\* One call signalToColorT03Average(raw, depthIndex, allDepthValues, rawRangeMin,
\* rawRangeMax, columnIndex, sensitivity).
Classify(id, raw, depthIndex, rawRangeMin, rawRangeMax, columnIndex, sensitivity) ==
    /\ nCalls < MaxCalls
    /\ \E res \in {signalToColorT03Average(raw * AmpScale, depthIndex, Column(id),
                                            rawRangeMin, rawRangeMax, columnIndex,
                                            sensitivity, bottomKalmanFilters)} :
           /\ bottomKalmanFilters' = res.filters
           /\ lastCall' = [made |-> TRUE, variant |-> "current", id |-> id, raw |-> raw,
                           depthIndex |-> depthIndex,
                           rawRangeMin |-> rawRangeMin, rawRangeMax |-> rawRangeMax,
                           columnIndex |-> columnIndex, sensitivity |-> sensitivity,
                           color |-> res.color, tracked |-> res.tracked,
                           bottomStartIndex |-> res.bottomStartIndex,
                           bottomEndIndex |-> res.bottomEndIndex,
                           bottomPeakSignal |-> res.bottomPeakSignal,
                           before |-> bottomKalmanFilters]
    /\ nCalls' = nCalls + 1
    /\ UNCHANGED viewerVars

\* resetBottomTracking()
ResetTracking ==
    /\ bottomKalmanFilters # resetBottomTracking
    /\ bottomKalmanFilters' = resetBottomTracking
    /\ UNCHANGED <<lastCall, nCalls>>
    /\ UNCHANGED viewerVars

NextClassifier ==
    \/ \E id \in ColumnIds, depthIndex \in DepthProbe :
          \E raw \in RawProbe(id, depthIndex) :
             Classify(id, raw, depthIndex, 0, 255, 0, 50)
    \/ ResetTracking

SpecClassifier == InitClassifier /\ [][NextClassifier]_vars

(***************************************************************************)
(* The 0-80 variant: a pure function, applied once to an input drawn by    *)
(* the initial state                                                       *)
(***************************************************************************)
LegacyColumnIds == {"legacyFlat80", "legacyMixed", "legacySustained", "empty"}

LegacyRawProbe(id, depthIndex) ==
    {0, 40, 80} \cup (IF depthIndex \in DOMAIN Column(id)
                        THEN {Column(id)[depthIndex]} ELSE {})

InitLegacy ==
    /\ bottomKalmanFilters = resetBottomTracking
    /\ nCalls = 0
    /\ ViewerWaiting
    /\ \E id \in LegacyColumnIds, depthIndex \in Bins :
          \E raw \in LegacyRawProbe(id, depthIndex) :
             lastCall = [made |-> FALSE, variant |-> "legacy", id |-> id, raw |-> raw,
                         depthIndex |-> depthIndex]

\* One call signalToColorT03Average(raw, depthIndex, allDepthValues) of nearby.ts.
ClassifyLegacy ==
    /\ ~lastCall.made
    /\ lastCall' = [made |-> TRUE, variant |-> "legacy", id |-> lastCall.id,
                    raw |-> lastCall.raw, depthIndex |-> lastCall.depthIndex,
                    color |-> legacySignalToColorT03Average(lastCall.raw * AmpScale,
                                  lastCall.depthIndex, Column(lastCall.id))]
    /\ nCalls' = nCalls + 1
    /\ UNCHANGED bottomKalmanFilters
    /\ UNCHANGED viewerVars

NextLegacy == ClassifyLegacy

SpecLegacy == InitLegacy /\ [][NextLegacy]_vars

(***************************************************************************)
(* The noise floor and the above-bottom average of a column, as functions  *)
(* of the column and the stable bottom index                               *)
(***************************************************************************)
\* sortedValues of the 0-255 variant (lines 606-608), before sorting.
validValues(allDepthValues) ==
    SelectSeq([i \in 1..Len0(allDepthValues) |-> allDepthValues[i - 1]],
              LAMBDA v : v >= 2 /\ v < MAX_RAW_SIGNAL)

\* p75 = sortedValues[Math.floor(validCount * 0.75)] || 32
p75(allDepthValues) ==
    LET valid == validValues(allDepthValues)
    IN  IF Len(valid) = 0 THEN 32
        ELSE legacySortedAt(valid, FloorDiv(Len(valid) * 75, 100))

\* Lines 871-882: aboveBottomAverage, in units of 1/AmpScale.
aboveBottomAverage(allDepthValues, bottomStartIndex) ==
    LET n == Len0(allDepthValues)
        upperLimit == IF bottomStartIndex # -1 THEN bottomStartIndex ELSE n
        counted == {i \in DOMAIN allDepthValues :
                       i < upperLimit /\ allDepthValues[i] < MAX_RAW_SIGNAL}
        kept == [i \in 1..n |-> IF (i - 1) \in counted THEN allDepthValues[i - 1] ELSE 0]
        count == Cardinality(counted)
    IN  IF count > 0 THEN FloorDiv(SumRange(kept, 1, n) * AmpScale, count)
        ELSE p75(allDepthValues) * AmpScale

\* The entries i..n-1 of a column (a function over 0..n-1) whose raw value is
\* not the sentinel, in order, as a sequence.
RECURSIVE WithoutSentinel(_, _, _, _)
WithoutSentinel(columnData, allDepthValues, i, n) ==
    IF i >= n THEN <<>>
    ELSE (IF allDepthValues[i] >= MAX_RAW_SIGNAL THEN <<>> ELSE <<columnData[i]>>)
            \o WithoutSentinel(columnData, allDepthValues, i + 1, n)

\* A sequence as an array over 0..n-1.
ArrayOf(s) == [i \in 0..(Len(s) - 1) |-> s[i + 1]]

\* The number of leading bins calculateNoiseFloor takes for the water column.
WaterLength(allDepthValues, bottomIndex) ==
    IF bottomIndex > 0 THEN Min(bottomIndex, Len0(allDepthValues))
    ELSE Len0(allDepthValues)

\* The noise floor of the column with the sentinel bins taken out of the
\* water column.
noiseFloorWithoutSentinel(allDepthValues, bottomIndex) ==
    calculateNoiseFloor(
        ArrayOf(WithoutSentinel(tvgCorrectedValues(allDepthValues), allDepthValues, 0,
                                WaterLength(allDepthValues, bottomIndex))), -1)

\* The above-bottom average of the column with the sentinel bins taken out of
\* the region below upperLimit; p75 is that of the column as it is.
averageWithoutSentinel(allDepthValues, bottomStartIndex) ==
    LET upperLimit == IF bottomStartIndex # -1
                        THEN Min(bottomStartIndex, Len0(allDepthValues))
                        ELSE Len0(allDepthValues)
        region == WithoutSentinel(allDepthValues, allDepthValues, 0, upperLimit)
    IN  IF Len(region) > 0 THEN FloorDiv(SumRange(region, 1, Len(region)) * AmpScale,
                                         Len(region))
        ELSE p75(allDepthValues) * AmpScale

\* [...waterColumn].sort((a, b) => a - b) for the first n bins of the column:
\* entry k is the value with fewer than k bins below it and at least k bins
\* not above it.
SortedWater(columnData, n) ==
    LET vals == [i \in 1..n |-> columnData[i - 1]] \o <<>>
        rank == [v \in {vals[i] : i \in 1..n} |->
                    <<Cardinality({j \in 1..n : vals[j] < v}),
                      Cardinality({j \in 1..n : vals[j] <= v})>>] @@ <<>>
    IN  [k \in 1..n |-> CHOOSE v \in DOMAIN rank : rank[v][1] < k /\ rank[v][2] >= k] \o <<>>

\* The columns the functions are applied to: with and without sentinel bins
\* in the water column, and the empty column.
NoiseColumnIds == {"flat255", "noisy", "second", "empty", "sentinelSurface", "sentinelShallow"}

\* The bottom indices the functions are applied to: none (-1) or a bin.  The
\* classifier itself passes -1 or a bin from 1 on, as update returns -1 or a
\* value that is at least 1.
BottomIndexProbe == (-1)..(RAW_BINS - 1)

\* The input is drawn by the initial state.
InitNoise ==
    /\ bottomKalmanFilters = resetBottomTracking
    /\ nCalls = 0
    /\ ViewerWaiting
    /\ \E id \in NoiseColumnIds, bottomIndex \in BottomIndexProbe :
          lastCall = [made |-> FALSE, variant |-> "noise", id |-> id,
                      bottomIndex |-> bottomIndex]

\* Lines 857-882 of signalToColorT03Average for the column and stable bottom
\* index drawn.
ComputeNoise ==
    /\ ~lastCall.made
    /\ lastCall.variant = "noise"
    /\ LET column == Column(lastCall.id)
           b      == lastCall.bottomIndex
       IN  lastCall' =
              [made |-> TRUE, variant |-> "noise", id |-> lastCall.id, bottomIndex |-> b,
               noiseFloor |-> calculateNoiseFloor(tvgCorrectedValues(column), b),
               aboveBottomAverage |-> aboveBottomAverage(column, b)]
    /\ nCalls' = nCalls + 1
    /\ UNCHANGED bottomKalmanFilters
    /\ UNCHANGED viewerVars

NextNoise == ComputeNoise

SpecNoise == InitNoise /\ [][NextNoise]_vars

(***************************************************************************)
(* The sample expander alone                                               *)
(***************************************************************************)
\* The raw arrays that are expanded.
ExpandInputs == {"second", "noisy", "alternating", "empty"}

\* The raw array, the target length and the target position looked at are
\* drawn by the initial state.
InitExpand ==
    /\ bottomKalmanFilters = resetBottomTracking
    /\ nCalls = 0
    /\ ViewerWaiting
    /\ \E id \in ExpandInputs, mode \in Modes :
          \E i \in 0..(depthSamplesMap(mode) - 1) :
             lastCall = [made |-> FALSE, variant |-> "expand", id |-> id,
                         targetDepth |-> depthSamplesMap(mode), position |-> i]

\* createRenderPacket(samples, depthSamples)
Expand ==
    /\ ~lastCall.made
    /\ lastCall.variant = "expand"
    /\ lastCall' = [made |-> TRUE, variant |-> "expand", id |-> lastCall.id,
                    targetDepth |-> lastCall.targetDepth, position |-> lastCall.position,
                    expanded |-> createRenderPacket(Column(lastCall.id),
                                                    lastCall.targetDepth) @@ <<>>]
    /\ nCalls' = nCalls + 1
    /\ UNCHANGED bottomKalmanFilters
    /\ UNCHANGED viewerVars

NextExpand == Expand

SpecExpand == InitExpand /\ [][NextExpand]_vars

(***************************************************************************)
(* The classifier under the operator's settings: one call with a           *)
(* sensitivity and an amplitude window, on a filter map that earlier calls *)
(* have left                                                               *)
(***************************************************************************)
SettingsColumnIds == {"fish", "noisy", "second", "weak", "empty", "faint"}

SensitivityProbe == {0, 25, 50, 75, 100}

\* <<rawRangeMin, rawRangeMax>>: the full window and two sub-ranges.
RangeProbe == {<<0, 255>>, <<0, 100>>, <<50, 150>>}

\* The raw amplitudes of a call: the column's own value at the bin and values
\* the display pipeline can hand over instead of it.
RawSettingsProbe(id, depthIndex) ==
    {0, 1, 20, 80, 200}
        \cup (IF depthIndex \in DOMAIN Column(id) THEN {Column(id)[depthIndex]} ELSE {})

\* The filter maps earlier calls can have left: untouched, or after one call for
\* an earlier ping.
SettledFilters ==
    {resetBottomTracking}
        \cup {signalToColorT03Average(0, 0, Column(id), 0, 255, 0, 50,
                                      resetBottomTracking).filters : id \in SettingsColumnIds}

InitSettings ==
    /\ bottomKalmanFilters \in SettledFilters
    /\ lastCall = NoCall
    /\ nCalls = MaxCalls - 1
    /\ ViewerWaiting

NextSettings ==
    \E id \in SettingsColumnIds, depthIndex \in DepthProbe, range \in RangeProbe :
       \E raw \in RawSettingsProbe(id, depthIndex), sensitivity \in SensitivityProbe :
          Classify(id, raw, depthIndex, range[1], range[2], 0, sensitivity)

SpecSettings == InitSettings /\ [][NextSettings]_vars

(***************************************************************************)
(* The raw bottom detection alone: one classifier call on an untouched     *)
(* filter map, for a column drawn by the initial state                     *)
(***************************************************************************)
\* A column of the given background with an echo that starts at bin at: two
\* bins of v1, then v2 up to the echo's length.
EchoColumn(base, at, v1, v2, length) ==
    Block(Block([i \in Bins |-> base], at, at + length - 1, v2),
          at, Min(at + 1, at + length - 1), v1)

EchoShapes ==
    [base : {0, 60}, at : {0, 1, 4, 40, 87}, v1 : {100, 120, 180, 255},
     v2 : {100, 170, 255}, length : {1, 2, 3, 6}]

ShapeColumn(shape) == EchoColumn(shape.base, shape.at, shape.v1, shape.v2, shape.length)

\* The columns for which the detection is run have a sample that is >= 2 and
\* below the sentinel.
InitDetect ==
    /\ bottomKalmanFilters = resetBottomTracking
    /\ nCalls = 0
    /\ ViewerWaiting
    /\ \E shape \in EchoShapes :
          /\ validCount(ShapeColumn(shape)) > 0
          /\ lastCall = [made |-> FALSE, variant |-> "detect", shape |-> shape]

\* Lines 648-786 of one call: the raw detection, its refinement and the
\* update of the tracking filter.
Detect ==
    /\ ~lastCall.made
    /\ lastCall.variant = "detect"
    /\ \E column \in {ShapeColumn(lastCall.shape)} :
        \E res \in {signalToColorT03Average(0, 0, column, 0, MAX_RAW_SIGNAL, 0, 50,
                                             bottomKalmanFilters)} :
           /\ bottomKalmanFilters' = res.filters
           /\ lastCall' = [made |-> TRUE, variant |-> "detect", shape |-> lastCall.shape,
                           candidate |-> roughBottomIndex(column),
                           rawBottomStartIndex |-> DetectBottom(column).rawBottomStartIndex,
                           bottomPeakSignal |-> res.bottomPeakSignal,
                           bottomStartIndex |-> res.bottomStartIndex]
    /\ nCalls' = nCalls + 1
    /\ UNCHANGED viewerVars

NextDetect == Detect

SpecDetect == InitDetect /\ [][NextDetect]_vars

(***************************************************************************)
(* The frame composer alone, for a canvas of any width: what each pixel    *)
(* column of the buffer holds after a run of the render effect, with a     *)
(* column renderer whose pixels depend on the ping and on the pixel's      *)
(* place in the column only                                                *)
(***************************************************************************)
\* The widths of the canvas (the prop width is window.innerWidth).
CanvasWidths == {3, 5, 6, 8}

\* The number of pings of the list.
CanvasPings == 6

\* The number of runs of the render effect in a behaviour.
MaxCanvasFrames == 3

\* Lines 186-192: the cell of a pixel column that holds the background fill.
BackgroundCell == [ping |-> -1, px |-> -1]

FillBackground(width) == [x \in 1..width |-> BackgroundCell]

\* Lines 128-134, 153-157 of renderColumn: the columnWidth pixel columns from
\* xPosition on take the ping's pixels; x < 0 and x >= width are skipped.
DrawPing(pixelData, width, xPosition, columnWidth, ping) ==
    [x \in 1..width |->
        IF xPosition < x /\ x <= xPosition + columnWidth
          THEN [ping |-> ping, px |-> x - 1 - xPosition]
          ELSE pixelData[x]]

\* Lines 214-223 for a canvas of the given width.
ShiftPixelsLeft(pixelData, width, columnWidth) ==
    [x \in 1..width |->
        IF x <= width - columnWidth THEN pixelData[x + columnWidth] ELSE pixelData[x]]

\* A faulty variant of startIndex: one more ping than the canvas has columns.
startIndexOneEarlier(index, numColumns) == Max(0, index - numColumns)

\* Line 196: startIndex = Math.max(0, currentIndex - numColumns + 1)
startIndex(index, numColumns) == Max(0, index - numColumns + 1)

\* Lines 200-203: packetsToRender.forEach, from entry i (0-based) on; first is
\* the list index of entry 0 and count the number of entries.
RECURSIVE DrawPackets(_, _, _, _, _, _)
DrawPackets(pixelData, width, columnWidth, first, count, i) ==
    IF i >= count THEN pixelData
    ELSE DrawPackets(DrawPing(pixelData, width, width - (count - i) * columnWidth,
                              columnWidth, first + i),
                     width, columnWidth, first, count, i + 1)

\* Lines 180-207: the buffer of a full rebuild at the index, for a list of
\* the given length.
RebuildPixels(width, mode, length, index) ==
    LET columnWidth == columnWidthMap(mode)
        numColumns  == width \div columnWidth
        first       == startIndex(index, numColumns)
        \* packets.slice(startIndex, currentIndex + 1).length
        count       == Max(0, Min(index + 1, length) - first)
    IN  IF length > 0 /\ index >= 0
          THEN DrawPackets(FillBackground(width), width, columnWidth, first, count, 0)
          ELSE FillBackground(width)

\* The render effect (lines 166-231) on a canvas of the given width.
ComposeFrame(pixelData, lastRenderedIndexRef, width, mode, length, index) ==
    IF isSeekOrReset(index, lastRenderedIndexRef) \/ length = 0 THEN
        [branch |-> "rebuild", pixelData |-> RebuildPixels(width, mode, length, index),
         lastRenderedIndexRef |-> index]
    ELSE IF index < length /\ index > lastRenderedIndexRef THEN
        [branch |-> "sequential",
         pixelData |-> DrawPing(ShiftPixelsLeft(pixelData, width, columnWidthMap(mode)),
                                width, width - columnWidthMap(mode), columnWidthMap(mode),
                                index),
         lastRenderedIndexRef |-> index]
    ELSE [branch |-> "skipped", pixelData |-> pixelData,
          lastRenderedIndexRef |-> lastRenderedIndexRef]

\* RadarCanvas is mounted with a width and a resolution mode; its effect has
\* not run.
InitCompose ==
    /\ bottomKalmanFilters = resetBottomTracking
    /\ nCalls = 0
    /\ ViewerWaiting
    /\ \E width \in CanvasWidths, mode \in Modes :
          lastCall = [made |-> FALSE, variant |-> "compose", width |-> width, mode |-> mode,
                      index |-> -1, branch |-> "none", branchBefore |-> "none",
                      lastRenderedIndexRef |-> -1, pixelData |-> FillBackground(width),
                      frames |-> 0]

\* A run of the render effect after currentIndex changed to the index.
Compose(index) ==
    /\ lastCall.variant = "compose"
    /\ lastCall.frames < MaxCanvasFrames
    /\ index # lastCall.index
    /\ \E res \in {ComposeFrame(lastCall.pixelData, lastCall.lastRenderedIndexRef,
                                 lastCall.width, lastCall.mode, CanvasPings, index)} :
          lastCall' = [made |-> TRUE, variant |-> "compose", width |-> lastCall.width,
                       mode |-> lastCall.mode, index |-> index, branch |-> res.branch,
                       branchBefore |-> lastCall.branch,
                       lastRenderedIndexRef |-> res.lastRenderedIndexRef,
                       pixelData |-> res.pixelData, frames |-> lastCall.frames + 1]
    /\ UNCHANGED <<bottomKalmanFilters, nCalls, viewerVars>>

NextCompose == \E index \in 0..(CanvasPings - 1) : Compose(index)

SpecCompose == InitCompose /\ [][NextCompose]_vars

(***************************************************************************)
(* The display configuration: MobileViewer's metadata.sensitivity and the  *)
(* column RadarCanvas draws under it                                       *)
(***************************************************************************)
DisplayColumnIds == {"fish", "weak", "second", "noisy", "empty"}

\* CSV_DATA has been handled (MobileViewer.tsx 106-110): the metadata hold the
\* message's resolution and sensitivity; nothing is drawn yet.
InitDisplay ==
    /\ bottomKalmanFilters = resetBottomTracking
    /\ nCalls = 0
    /\ ViewerWaiting
    /\ \E id \in DisplayColumnIds, mode \in Modes, sensitivity \in SensitivityProbe :
          lastCall = [made |-> FALSE, variant |-> "display", id |-> id, mode |-> mode,
                      sensitivity |-> sensitivity]

\* MobileViewer.handleMessage, UPDATE_SETTINGS with a sensitivity (lines 122-128).
UpdateSensitivity(sensitivity) ==
    /\ lastCall.variant = "display"
    /\ sensitivity # lastCall.sensitivity
    /\ lastCall' = [lastCall EXCEPT !.sensitivity = sensitivity]
    /\ UNCHANGED <<bottomKalmanFilters, nCalls, viewerVars>>

\* RadarCanvas draws the ping's column: MobileViewer passes
\* sensitivity={metadata.sensitivity} (line 202), RadarCanvas's props have no
\* such field (lines 6-16) and renderColumn calls the classifier without it
\* (line 148).
DrawConfigured ==
    /\ lastCall.variant = "display"
    /\ ~lastCall.made
    /\ \E drawn \in {renderColumn(Column(lastCall.id), lastCall.mode, ClockOf(1),
                                     bottomKalmanFilters)} :
          /\ bottomKalmanFilters' = drawn.filters
          /\ lastCall' = [made |-> TRUE, variant |-> "display", id |-> lastCall.id,
                          mode |-> lastCall.mode, sensitivity |-> lastCall.sensitivity,
                          configured |-> lastCall.sensitivity,
                          before |-> bottomKalmanFilters, columns |-> drawn.columns]
    /\ nCalls' = nCalls + CallsPerColumn[lastCall.mode]
    /\ UNCHANGED viewerVars

NextDisplay ==
    \/ \E sensitivity \in SensitivityProbe : UpdateSensitivity(sensitivity)
    \/ DrawConfigured

SpecDisplay == InitDisplay /\ [][NextDisplay]_vars

(***************************************************************************)
(* The tracking filter alone: one column's filter fed a sequence of pings  *)
(***************************************************************************)
\* The number of pings a behaviour feeds to the filter.
MaxTrackFrames == 4

\* The number of leading pings with one bottom, detected at full confidence,
\* after which the filter counts as warmed up.
WarmUpFrames == 2

\* The bottoms of the pings: neighbouring bins and one far away.
BottomProbe == {40, 41, 42, 60}

\* calculateBottomConfidence's values below and above the 0.3 gate, in tenths.
ConfidenceProbe == {2, 10}

\* The number of update calls a ping makes: one, or one per classifier call
\* of a column rendered at resolution "720".
UpdatesPerPing == {1, CallsPerColumn["720"]}

InitTrack ==
    /\ bottomKalmanFilters = resetBottomTracking
    /\ nCalls = 0
    /\ ViewerWaiting
    /\ \E n \in UpdatesPerPing :
          lastCall = [made |-> FALSE, variant |-> "track", perPing |-> n]

\* The pings so far form a sequence the tracker is meant to follow: the
\* bottom moves by at most one bin from ping to ping, and every detection is
\* the ping's bottom at full confidence.
SmoothAfter(bottom, detected, c10) ==
    /\ (detected => c10 = 10)
    /\ lastCall.made => (lastCall.smooth /\ Abs(bottom - lastCall.bottom) <= 1)

\* The number of leading pings that had one bottom, detected at full
\* confidence.
SteadyAfter(bottom, detected, c10) ==
    IF ~lastCall.made
      THEN (IF detected /\ c10 = 10 THEN 1 ELSE 0)
    ELSE IF lastCall.steady = nCalls /\ detected /\ c10 = 10 /\ bottom = lastCall.bottom
      THEN lastCall.steady + 1
    ELSE lastCall.steady

\* One ping with the given bottom: kalmanFilter.update(rawBottomStartIndex,
\* confidence) with rawBottomStartIndex the bottom, or -1 when the detection
\* is missing, made perPing times.  first and returned are the values of the
\* first and the last call.
TrackPing(bottom, detected, c10) ==
    /\ lastCall.variant = "track"
    /\ nCalls < MaxTrackFrames
    /\ LET measurement == IF detected THEN bottom ELSE -1
           f           == getBottomKalmanFilter(bottomKalmanFilters, 0)
       IN  \E last \in {KalmanUpdateTimes(f, measurement, c10, lastCall.perPing - 1)} :
              /\ bottomKalmanFilters' =
                    SetFilter(bottomKalmanFilters, 0,
                              KalmanUpdateState(last, measurement, c10))
              /\ lastCall' =
                    [made |-> TRUE, variant |-> "track", perPing |-> lastCall.perPing,
                     bottom |-> bottom, detected |-> detected, c10 |-> c10,
                     measurement |-> measurement,
                     first |-> KalmanUpdateValue(f, measurement, c10),
                     returned |-> KalmanUpdateValue(last, measurement, c10),
                     wasInitialized |-> f.initialized, before |-> f,
                     previous |-> IF lastCall.made THEN lastCall.returned ELSE -1,
                     previousMeasurement |->
                         IF lastCall.made THEN lastCall.measurement ELSE -1,
                     smooth |-> SmoothAfter(bottom, detected, c10),
                     steady |-> SteadyAfter(bottom, detected, c10),
                     dropouts |-> (IF lastCall.made THEN lastCall.dropouts ELSE 0)
                                    + (IF detected THEN 0 ELSE 1)]
    /\ nCalls' = nCalls + 1
    /\ UNCHANGED viewerVars

\* A ping without a detection has bottomPeakSignal 0, hence confidence 0.
NextTrack ==
    \/ \E bottom \in BottomProbe, c10 \in ConfidenceProbe : TrackPing(bottom, TRUE, c10)
    \/ \E bottom \in BottomProbe : TrackPing(bottom, FALSE, 0)

SpecTrack == InitTrack /\ [][NextTrack]_vars

\* The pings keep coming until the recording ends.
SpecTrackLive == SpecTrack /\ WF_vars(NextTrack)

(***************************************************************************)
(* The viewer: MobileViewer hosting useRadarPlayer and RadarCanvas         *)
(*                                                                         *)
(* MobileViewer mounts RadarCanvas once a CSV_DATA message has delivered a *)
(* non-empty file, with colorMode "t03Average" and the resolution of the   *)
(* message.  React (createRoot) applies the state updates made since the   *)
(* last render in one render; the effects of a render run before the next  *)
(* render, RadarCanvas's before the hook's.                                *)
(***************************************************************************)
\* The number of runs of the render effect in a behaviour.
MaxFrames == 2

\* The number of runs of the render effect in a behaviour of seeks and resets.
MaxSeekFrames == 4

\* The number of CSV_DATA messages after the first.
MaxReloads == 1

\* The state a React render is made with.
Props == [mounted |-> TRUE, packets |-> packets, resolutionMode |-> resolutionMode,
          isPlaying |-> isPlaying, currentIndex |-> currentIndex]

\* The RGBA cells of the pixel data.
Pixels(pixelData) == [x \in 1..CanvasWidth |-> pixelData[x].rgba] \o <<>>

\* The first CSV_DATA message has been handled; the first render is due.
Init ==
    /\ bottomKalmanFilters = resetBottomTracking
    /\ lastCall = NoCall
    /\ nCalls = 0
    /\ \E file \in FileIds : packets = [file |-> file, serial |-> 1]
    /\ resolutionMode \in Modes
    /\ isPlaying = FALSE
    /\ currentIndex = 0
    /\ rendered = NotRendered
    /\ lastRenderedIndex = -1
    /\ canvas = BlankCanvas
    /\ nFrames = 0
    /\ lastRender = NoRender
    /\ shots = NoShots

\* useRadarPlayer.play (the length is that of the render the callback is from)
Play ==
    /\ rendered.mounted
    /\ isPlaying' = (IF Len(FilePings(rendered.packets.file)) = 0 THEN isPlaying ELSE TRUE)
    /\ UNCHANGED <<classifierVars, packets, resolutionMode, currentIndex, rendered,
                   lastRenderedIndex, canvas, nFrames, lastRender, shots>>

\* useRadarPlayer.pause
Pause ==
    /\ rendered.mounted
    /\ isPlaying' = FALSE
    /\ UNCHANGED <<classifierVars, packets, resolutionMode, currentIndex, rendered,
                   lastRenderedIndex, canvas, nFrames, lastRender, shots>>

\* useRadarPlayer.reset
Reset ==
    /\ rendered.mounted
    /\ isPlaying' = FALSE
    /\ currentIndex' = 0
    /\ UNCHANGED <<classifierVars, packets, resolutionMode, rendered,
                   lastRenderedIndex, canvas, nFrames, lastRender, shots>>

\* useRadarPlayer.seek(index)
Seek(index) ==
    /\ rendered.mounted
    /\ currentIndex' = (IF index >= 0 /\ index < Len(FilePings(rendered.packets.file))
                          THEN index ELSE currentIndex)
    /\ UNCHANGED <<classifierVars, packets, resolutionMode, isPlaying, rendered,
                   lastRenderedIndex, canvas, nFrames, lastRender, shots>>

\* A faulty variant of Tick: the callback advances without the test against
\* the length.
TickPastEnd ==
    /\ rendered.mounted
    /\ rendered.isPlaying
    /\ Len(FilePings(rendered.packets.file)) > 0
    /\ currentIndex' = currentIndex + 1
    /\ UNCHANGED <<classifierVars, packets, resolutionMode, isPlaying, rendered,
                   lastRenderedIndex, canvas, nFrames, lastRender, shots>>

\* The interval callback of useRadarPlayer (lines 46-55).  The interval exists
\* from the effect of a render with isPlaying and a non-empty list to the
\* cleanup at the next render that changes either.
Tick ==
    /\ rendered.mounted
    /\ rendered.isPlaying
    /\ Len(FilePings(rendered.packets.file)) > 0
    /\ LET next == currentIndex + 1
       IN  IF next >= Len(FilePings(rendered.packets.file))
             THEN isPlaying' = FALSE /\ currentIndex' = currentIndex
             ELSE currentIndex' = next /\ isPlaying' = isPlaying
    /\ UNCHANGED <<classifierVars, packets, resolutionMode, rendered,
                   lastRenderedIndex, canvas, nFrames, lastRender, shots>>

\* MobileViewer.handleMessage, UPDATE_SETTINGS with a resolution.
UpdateSettings(resolution) ==
    /\ rendered.mounted
    /\ resolutionMode' = resolution
    /\ UNCHANGED <<classifierVars, packets, isPlaying, currentIndex, rendered,
                   lastRenderedIndex, canvas, nFrames, lastRender, shots>>

\* MobileViewer.handleMessage, CSV_DATA with a file that parses to packets:
\* viewerState goes to 'loading' and back to 'ready' within the handler, so
\* RadarCanvas stays mounted.
CsvData(file, resolution) ==
    /\ rendered.mounted
    /\ packets.serial <= MaxReloads
    /\ packets' = [file |-> file, serial |-> packets.serial + 1]
    /\ resolutionMode' = resolution
    /\ UNCHANGED <<classifierVars, isPlaying, currentIndex, rendered,
                   lastRenderedIndex, canvas, nFrames, lastRender, shots>>

\* A frame at an index other than 0 made right after a frame at index 0 of the
\* same packets and mode: the key under which its pixels are kept.
ShotKey == [packets |-> packets, resolutionMode |-> resolutionMode,
            currentIndex |-> currentIndex]

SeekAfterReset ==
    /\ rendered.mounted
    /\ rendered.currentIndex = 0
    /\ rendered.packets = packets
    /\ rendered.resolutionMode = resolutionMode
    /\ currentIndex > 0

\* One React render of MobileViewer and the effects it schedules: the render
\* effect of RadarCanvas if one of its dependencies changed, then the effect
\* of useRadarPlayer on [packets] (lines 67-70).
RenderWithin(maxFrames) ==
    /\ rendered # Props
    /\ LET mounting      == ~rendered.mounted
           packetsChange == mounting \/ rendered.packets # packets
           effectDue     == \/ packetsChange
                            \/ rendered.currentIndex # currentIndex
                            \/ rendered.resolutionMode # resolutionMode
       IN  /\ IF effectDue
                THEN /\ nFrames < maxFrames
                     /\ \E res \in {RenderEffect(canvas, bottomKalmanFilters,
                                                 lastRenderedIndex, packets.file,
                                                 PacketList(packets.file), currentIndex,
                                                 resolutionMode, nFrames + 1)} :
                           /\ canvas' = res.pixelData
                           /\ bottomKalmanFilters' = res.filters
                           /\ lastRenderedIndex' = res.lastRenderedIndexRef
                           /\ lastRender' =
                                 [branch |-> res.branch, index |-> currentIndex,
                                  watermark |-> lastRenderedIndex,
                                  listEmpty |-> Len(FilePings(packets.file)) = 0,
                                  hasPacket |-> currentIndex < Len(FilePings(packets.file)),
                                  packets |-> packets,
                                  resolutionMode |-> resolutionMode,
                                  modeBefore |-> IF mounting THEN "none"
                                                 ELSE rendered.resolutionMode,
                                  packetsBefore |-> IF mounting THEN packets
                                                    ELSE rendered.packets,
                                  before |-> canvas,
                                  filtersBefore |-> bottomKalmanFilters,
                                  frame |-> nFrames + 1,
                                  afterReset |-> SeekAfterReset,
                                  repeated |-> SeekAfterReset /\ ShotKey \in DOMAIN shots,
                                  first |-> IF SeekAfterReset /\ ShotKey \in DOMAIN shots
                                              THEN shots[ShotKey] ELSE Pixels(res.pixelData)]
                           /\ shots' = IF SeekAfterReset /\ ShotKey \notin DOMAIN shots
                                         THEN [key \in DOMAIN shots \cup {ShotKey} |->
                                                  IF key = ShotKey THEN Pixels(res.pixelData)
                                                  ELSE shots[key]]
                                         ELSE shots
                     /\ nFrames' = nFrames + 1
                ELSE UNCHANGED <<canvas, bottomKalmanFilters, lastRenderedIndex,
                                 lastRender, shots, nFrames>>
           /\ IF packetsChange
                THEN currentIndex' = 0 /\ isPlaying' = FALSE
                ELSE UNCHANGED <<currentIndex, isPlaying>>
    /\ rendered' = Props
    /\ UNCHANGED <<lastCall, nCalls, packets, resolutionMode>>

Render == RenderWithin(MaxFrames)

Next ==
    \/ Play
    \/ Pause
    \/ Reset
    \/ \E index \in 0..Len(FilePings("A")) : Seek(index)
    \/ Tick
    \/ \E resolution \in Modes : UpdateSettings(resolution)
    \/ \E file \in FileIds, resolution \in Modes : CsvData(file, resolution)
    \/ Render

Spec == Init /\ [][Next]_vars

\* The behaviours of resets and seeks alone.
RenderSeek == RenderWithin(MaxSeekFrames)

NextSeek ==
    \/ Reset
    \/ \E index \in 0..Len(FilePings("A")) : Seek(index)
    \/ RenderSeek

SpecSeek == Init /\ [][NextSeek]_vars

\* Playback alone: play, the timer, the renders and the host's changes of the
\* resolution; no other user action and no new file.
NextPlayback ==
    \/ Play
    \/ Tick
    \/ \E resolution \in Modes : UpdateSettings(resolution)
    \/ RenderSeek

SpecPlayback == Init /\ [][NextPlayback]_vars

\* The timer fires as long as the interval exists.
SpecPlaybackLive == SpecPlayback /\ WF_vars(Tick)

(***************************************************************************)
(* Properties of the frame composer                                        *)
(***************************************************************************)
\* The render effect has run at least once; lastRender describes its last run.
FrameMade == lastRender.branch # "none"

\* The ping the last run of the render effect was made for.
CurrentPing == [file |-> lastRender.packets.file, index |-> lastRender.index]

\* C1: a render at ping index i is handled as Reset/Seek exactly when the
\* watermark is -1, or i <= watermark, or i - watermark > 1, or the ping list
\* is empty; a Reset/Seek leaves a buffer made in this frame only (background
\* fill of this frame, columns drawn in this frame); after every handled
\* render the watermark equals i.
C1_ResetSeekExactly ==
    FrameMade =>
        /\ (lastRender.branch = "rebuild")
              <=> \/ lastRender.watermark = -1
                  \/ lastRender.index <= lastRender.watermark
                  \/ lastRender.index - lastRender.watermark > 1
                  \/ lastRender.listEmpty
        /\ lastRender.branch = "rebuild" =>
              \A x \in 1..CanvasWidth :
                 /\ canvas[x].frame = lastRender.frame
                 /\ canvas[x].ping = NoPing => canvas[x] = BackgroundCanvas(lastRender.frame)[x]
        /\ lastRender.branch \in {"rebuild", "sequential"} =>
              lastRenderedIndex = lastRender.index

\* C1 witness: a forward jump of more than one ping from an initialized
\* watermark was handled as Reset/Seek.
C1_Witness ==
    /\ FrameMade
    /\ lastRender.branch = "rebuild"
    /\ lastRender.watermark >= 0
    /\ lastRender.index - lastRender.watermark > 1
    /\ lastRenderedIndex = lastRender.index
    /\ \A x \in 1..CanvasWidth : canvas[x].frame = lastRender.frame

\* The new index is the watermark plus one and the current ping exists.
NextIndexCase ==
    /\ FrameMade
    /\ lastRender.index = lastRender.watermark + 1
    /\ lastRender.hasPacket

\* The same, the watermark being initialized.
SequentialCase == NextIndexCase /\ lastRender.watermark # -1

\* The buffer after a sequential advance: every pixel column x below
\* width - columnWidth holds what column x + columnWidth held before, the
\* columnWidth rightmost columns hold the current ping drawn in this frame at
\* the current mode, no other column was drawn in this frame, and the
\* watermark is the new index.
ShiftedAndDrawn ==
    LET cw == columnWidthMap(lastRender.resolutionMode)
    IN  /\ \A x \in 1..(CanvasWidth - cw) : canvas[x] = lastRender.before[x + cw]
        /\ \A x \in (CanvasWidth - cw + 1)..CanvasWidth :
              /\ canvas[x].ping = CurrentPing
              /\ canvas[x].frame = lastRender.frame
              /\ canvas[x].mode = lastRender.resolutionMode
        /\ \A x \in 1..(CanvasWidth - cw) : canvas[x].frame # lastRender.frame
        /\ lastRenderedIndex = lastRender.index

\* C2: when the new index equals watermark + 1, the watermark being
\* initialized (not -1), and a current ping exists, the buffer is shifted left
\* by one column width, exactly the current ping is drawn, in the rightmost
\* column, and the watermark is the new index.
C2_SequentialShift == SequentialCase => ShiftedAndDrawn

\* C2 as stated, for every watermark, -1 included: when the new index
\* equals watermark + 1 and a current ping exists, pixel (x, y) takes the
\* previous value of (x + columnWidth, y) for every x < width - columnWidth,
\* and the watermark is the new index.
C2_SequentialShiftAnyWatermark ==
    NextIndexCase =>
        LET cw == columnWidthMap(lastRender.resolutionMode)
        IN  /\ \A x \in 1..(CanvasWidth - cw) :
                  canvas[x].rgba = lastRender.before[x + cw].rgba
            /\ lastRenderedIndex = lastRender.index

\* C2 witness: a sequential advance at two pixels per column moved the column
\* of the previous ping to the left of the new one.
C2_Witness ==
    /\ SequentialCase
    /\ lastRender.branch = "sequential"
    /\ lastRender.resolutionMode = "360"
    /\ canvas[CanvasWidth].ping = CurrentPing
    /\ canvas[CanvasWidth - 2].ping = [file |-> lastRender.packets.file,
                                       index |-> lastRender.index - 1]
    /\ canvas[CanvasWidth - 2] = lastRender.before[CanvasWidth]

\* C3: on every Reset/Seek render the tracking filters are reset before the
\* visible columns are recomputed: the rebuilt pixels are those the rebuild
\* makes from reset filters, whatever was rendered before.
C3_RebuildFromResetFilters ==
    (FrameMade /\ lastRender.branch = "rebuild") =>
        Pixels(canvas) =
            Pixels(RenderEffect(lastRender.before, resetBottomTracking, lastRender.watermark,
                                lastRender.packets.file,
                                PacketList(lastRender.packets.file), lastRender.index,
                                lastRender.resolutionMode, lastRender.frame).pixelData)

\* C4: after the resolution mode changed, the next rendered frame is a full
\* repaint at the new mode: no pixel column drawn under another mode is left
\* in the buffer, also when the index advanced to watermark + 1 in the same
\* render.
C4_ModeChangeRepaints ==
    (FrameMade /\ lastRender.modeBefore \notin {"none", lastRender.resolutionMode}) =>
        /\ lastRender.branch = "rebuild"
        /\ \A x \in 1..CanvasWidth : canvas[x].mode \in {"none", lastRender.resolutionMode}

\* C5: a seek to index K right after a reset, made a second time on the same
\* packets and mode, yields the pixels it yielded the first time.
C5_RepeatIdentical ==
    (FrameMade /\ lastRender.repeated) => Pixels(canvas) = lastRender.first

\* The pings drawn in the last frame, each at a column position of its own.
DrawnInFrame ==
    {canvas[x].ping : x \in {y \in 1..CanvasWidth : /\ canvas[y].frame = lastRender.frame
                                                    /\ canvas[y].ping # NoPing}}

\* C13: the tracking filter state is per screen column position: after a
\* frame that drew columns at k positions there are at least k estimators,
\* one for each position.
C13_EstimatorPerPosition ==
    FrameMade => Cardinality(DOMAIN bottomKalmanFilters) >= Cardinality(DrawnInFrame)

(***************************************************************************)
(* Properties of the classifier                                            *)
(***************************************************************************)
CurrentCall == lastCall.made /\ lastCall.variant = "current"

\* An opaque colour of the brown family: red above green above blue.
IsOpaqueBrown(c) == c.a = 255 /\ c.r > c.g /\ c.g > c.b

\* C6: the classifier is deterministic - a call returns the colour that the
\* same arguments get on an untouched filter map (the first call of a run, or
\* the call after a reset), whatever calls were made before it.
C6_Deterministic ==
    CurrentCall =>
        lastCall.color =
            signalToColorT03Average(lastCall.raw * AmpScale, lastCall.depthIndex,
                                    Column(lastCall.id), lastCall.rawRangeMin,
                                    lastCall.rawRangeMax, lastCall.columnIndex,
                                    lastCall.sensitivity, resetBottomTracking).color

\* The call lies at or below the stable bottom index of its column.
InBottomRegion ==
    /\ CurrentCall
    /\ lastCall.tracked
    /\ lastCall.bottomStartIndex # -1
    /\ lastCall.depthIndex >= lastCall.bottomStartIndex

\* The call's bin is more than 3 bins past the end of the bottom echo and its
\* amplitude is above 30, below 60% of the bottom peak and below 180.
SuppressedBin ==
    /\ lastCall.depthIndex > lastCall.bottomEndIndex + 3
    /\ lastCall.raw > 30
    /\ lastCall.raw * 10 < lastCall.bottomPeakSignal * 6
    /\ lastCall.raw < 180

SpikeColumns == {"fish", "fishHigh"}

\* C9: for a column with an isolated 3-bin spike at 20 and a sustained bottom
\* echo from 60, the bottom index lies at the sustained echo and the spike bins
\* are returned as a target colour: not transparent and not bottom brown.
C9_SpikeIsTarget ==
    (CurrentCall /\ lastCall.id \in SpikeColumns) =>
        /\ lastCall.bottomStartIndex \in {59, 60}
        /\ (lastCall.depthIndex \in 20..22 /\ lastCall.raw = Column(lastCall.id)[20]) =>
              (lastCall.color.a # 0 /\ ~IsOpaqueBrown(lastCall.color))

\* The columns that are 0 at bins 0..39 and the scale maximum at bins 40..89.
FlatColumns == {"flat255", "legacyFlat80"}

\* C10: for a column that is 0 at bins 0..39 and the scale maximum at bins
\* 40..89 (80 on the 0-80 scale), every bin from 40 on is returned as an opaque
\* brown colour and every bin before 40 fully transparent.
C10_FlatBottom ==
    (/\ lastCall.made
     /\ lastCall.id \in FlatColumns
     /\ lastCall.raw = Column(lastCall.id)[lastCall.depthIndex]) =>
        IF lastCall.depthIndex >= 40 THEN IsOpaqueBrown(lastCall.color)
        ELSE lastCall.color = Transparent

\* C10 on the 0-255 variant alone, where it holds.
C10_FlatBottomCurrent ==
    (CurrentCall /\ lastCall.id \in FlatColumns) => C10_FlatBottom

(***************************************************************************)
(* Properties of the tracking filter                                       *)
(***************************************************************************)
TrackedPing == lastCall.made /\ lastCall.variant = "track"

\* The filter was warmed up before the last ping, and the pings so far are a
\* smooth sequence with at most one missing detection.
WarmAndSmooth ==
    /\ TrackedPing
    /\ lastCall.steady >= WarmUpFrames
    /\ nCalls > WarmUpFrames
    /\ lastCall.smooth
    /\ lastCall.dropouts <= 1

\* C11: for a ping sequence whose bottom moves by at most one bin per ping,
\* once the filter is warmed up the stable index is within one bin of the
\* ping's bottom and is not -1, also with one detection missing.
C11_TracksSmoothBottom ==
    WarmAndSmooth =>
        /\ lastCall.returned # -1
        /\ Abs(lastCall.returned - lastCall.bottom) <= 1

\* C12: once the filter is initialized, the stable index returned for a ping
\* differs by at most one bin from the one returned for the ping before,
\* whatever the detections and confidences are.
C12_StableIndexStepBounded ==
    (TrackedPing /\ lastCall.wasInitialized) =>
        Abs(lastCall.returned - lastCall.previous) <= 1

\* C12 witness: two detections in a row that are 20 bins apart, as the raw
\* detector gives them for two columns, and stable indices that are not.
C12_Witness ==
    /\ TrackedPing
    /\ lastCall.wasInitialized
    /\ lastCall.detected /\ lastCall.c10 = 10
    /\ lastCall.previousMeasurement = 40
    /\ lastCall.measurement = 60
    /\ Abs(lastCall.returned - lastCall.previous) <= 1
    /\ Abs(DetectBottom(Column("second")).rawBottomStartIndex
             - DetectBottom(Column("fishHigh")).rawBottomStartIndex) > 1

\* The last ping had the confident detection m.
ConfidentAt(m) ==
    TrackedPing /\ lastCall.detected /\ lastCall.c10 = 10 /\ lastCall.measurement = m

\* The filter after the last ping.
TrackFilter == getBottomKalmanFilter(bottomKalmanFilters, 0)

\* A confident detection that is more than one bin from the estimate leaves
\* the estimate where it was, so the same detection is as far from it at the
\* next ping.
OutlierKeepsEstimate ==
    [][\A m \in BottomProbe :
          (TrackFilter.initialized /\ ConfidentAt(m)'
             /\ Abs(m * XScale - TrackFilter.x) > 1 * XScale)
          => (TrackFilter'.x = TrackFilter.x /\ lastCall'.returned = RoundX(TrackFilter.x))]_vars

C22_OneUpdatePerPing ==
    TrackedPing =>
        /\ lastCall.first = lastCall.returned
        /\ TrackFilter = KalmanUpdateState(lastCall.before, lastCall.measurement, lastCall.c10)

\* The last ping was one update of an initialized filter.
SingleUpdate == TrackedPing /\ lastCall.perPing = 1 /\ lastCall.before.initialized

\* The measurement of the last ping was absent or of confidence below 0.3.
AbsentOrUnsure == lastCall.measurement <= 0 \/ lastCall.c10 < 3

\* The measurement of the last ping was present, confident and more than one
\* bin from the estimate.
OutlierCase ==
    /\ ~AbsentOrUnsure
    /\ Abs(lastCall.measurement * XScale - lastCall.before.x) > 1 * XScale

NoiseComputed == lastCall.made /\ lastCall.variant = "noise"

\* C14: the sentinel 255 contributes neither to the noise floor nor to the
\* above-bottom average: both equal what they are with the 255-valued bins
\* taken out of the above-bottom region.
C14_SentinelExcluded ==
    NoiseComputed =>
        /\ lastCall.noiseFloor
              = noiseFloorWithoutSentinel(Column(lastCall.id), lastCall.bottomIndex)
        /\ lastCall.aboveBottomAverage
              = averageWithoutSentinel(Column(lastCall.id), lastCall.bottomIndex)

\* max(1, mean of the max(1, floor(0.2 n)) smallest of the first n bins), by
\* sorting the bins; 1 when there are none.
LowestFifthMean(columnData, n) ==
    IF n = 0 THEN 1 * AmpScale
    ELSE LET sorted == SortedWater(columnData, n)
             k      == Max(1, FloorDiv(2 * n, 10))
         IN  Max(1 * AmpScale, FloorDiv(SumRange(sorted, 1, k), k))

NoiseInput == tvgCorrectedValues(Column(lastCall.id))

Expanded == lastCall.made /\ lastCall.variant = "expand"

ExpandedRaw == Column(lastCall.id)

\* The target position looked at maps exactly onto a raw index.
AlignedPosition ==
    /\ Len0(ExpandedRaw) > 0
    /\ (lastCall.position * Len0(ExpandedRaw)) % lastCall.targetDepth = 0

\* C16: the expanded value at a target position that maps exactly onto a raw
\* index k (i * len(raw) / targetLength = k) equals raw[k].
C16_AlignedEqualsRaw ==
    (Expanded /\ AlignedPosition) =>
        lastCall.expanded[lastCall.position]
           = ExpandedRaw[(lastCall.position * Len0(ExpandedRaw)) \div lastCall.targetDepth]

\* raw[index] || 0
RawOrZero(index) == IF index \in DOMAIN ExpandedRaw THEN ExpandedRaw[index] ELSE 0

\* C17: expansion returns exactly targetLength values, each in 0..255 and each
\* between the two neighbouring raw samples raw[i0] and raw[i1] (i0 the floor
\* of the source position as computed, i1 = min(len - 1, i0 + 1)); an empty
\* raw array gives targetLength zeros.
C17_LengthRangeBetween ==
    Expanded =>
        LET length == Len0(ExpandedRaw)
            i0     == SourceIndex0(length, lastCall.targetDepth, lastCall.position)
            i1     == Min(length - 1, i0 + 1)
            value  == lastCall.expanded[lastCall.position]
        IN  /\ DOMAIN lastCall.expanded = 0..(lastCall.targetDepth - 1)
            /\ \A i \in DOMAIN lastCall.expanded : lastCall.expanded[i] \in 0..255
            /\ Min(RawOrZero(i0), RawOrZero(i1)) <= value
            /\ value <= Max(RawOrZero(i0), RawOrZero(i1))
            /\ (length = 0 => \A i \in DOMAIN lastCall.expanded : lastCall.expanded[i] = 0)

\* A position between two different raw samples, whose value lies strictly
\* between them.
C17_Witness ==
    /\ Expanded
    /\ lastCall.id = "noisy"
    /\ lastCall.targetDepth = 360
    /\ lastCall.position = 99
    /\ lastCall.expanded[99] > 5
    /\ lastCall.expanded[99] < 70

(***************************************************************************)
(* Properties of the classifier under the operator's settings              *)
(***************************************************************************)
\* The colour the call's arguments get from the filter map the call found, at
\* another sensitivity and amplitude window.
ColourAt(sensitivity, rawRangeMin, rawRangeMax) ==
    signalToColorT03Average(lastCall.raw * AmpScale, lastCall.depthIndex,
                            Column(lastCall.id), rawRangeMin, rawRangeMax,
                            lastCall.columnIndex, sensitivity, lastCall.before).color

\* The call's bin was classified as water column: above the stable bottom
\* index (or no bottom), and neither forced to the bottom colour nor
\* suppressed as a second reflection.
WaterColumnBin ==
    /\ CurrentCall
    /\ lastCall.tracked
    /\ ~(lastCall.bottomStartIndex # -1 /\ lastCall.depthIndex >= lastCall.bottomStartIndex)
    /\ ~(lastCall.bottomStartIndex = -1 /\ lastCall.raw >= NEAR_MAX_THRESHOLD)
    /\ ~isSecondReflection(lastCall.raw * AmpScale, lastCall.depthIndex,
                           lastCall.bottomStartIndex, lastCall.bottomEndIndex,
                           lastCall.bottomPeakSignal)

PassesSnr ==
    calculateSNR(applyTVG(lastCall.raw * AmpScale, lastCall.depthIndex),
                 calculateNoiseFloor(tvgCorrectedValues(Column(lastCall.id)),
                                     lastCall.bottomStartIndex))
       >= snrThreshold(lastCall.sensitivity)

\* A sub-range is selected and the call's raw amplitude is outside it.
OutsideWindow ==
    /\ ~(lastCall.rawRangeMin = 0 /\ lastCall.rawRangeMax = 255)
    /\ ~(lastCall.raw >= lastCall.rawRangeMin /\ lastCall.raw <= lastCall.rawRangeMax)

\* The call's bin was classified as bottom: at or below the stable bottom
\* index, or forced to the bottom colour.
BottomBin ==
    /\ CurrentCall
    /\ lastCall.tracked
    /\ \/ lastCall.bottomStartIndex # -1 /\ lastCall.depthIndex >= lastCall.bottomStartIndex
       \/ lastCall.bottomStartIndex = -1 /\ lastCall.raw >= NEAR_MAX_THRESHOLD

\* C19: a water-column bin that passes the SNR threshold is fully transparent
\* exactly when a sub-range other than 0..255 is selected and the bin's raw
\* amplitude is outside it; the colour of a bottom-classified bin is the same
\* under every window.
C19_WindowFiltersWaterOnly ==
    /\ (WaterColumnBin /\ PassesSnr) => (lastCall.color.a = 0 <=> OutsideWindow)
    /\ BottomBin =>
          \A range \in RangeProbe :
             ColourAt(lastCall.sensitivity, range[1], range[2]) = lastCall.color

\* A water-column bin that passes the threshold and is hidden by the window
\* 0..100, and would be shown under the full window.
C19_Witness ==
    /\ WaterColumnBin
    /\ PassesSnr
    /\ OutsideWindow
    /\ lastCall.raw = 200
    /\ lastCall.color.a = 0
    /\ ColourAt(lastCall.sensitivity, 0, 255).a = 255

\* The call's column is empty, or has no value of 2 or more and no sentinel.
NoSampleColumn ==
    \/ Len0(Column(lastCall.id)) = 0
    \/ /\ validCount(Column(lastCall.id)) = 0
       /\ first255Index(Column(lastCall.id)) = -1

\* C20: for an empty column, or a column with no value >= 2 and no 255
\* sentinel, the classifier returns a fully transparent colour for every bin
\* index and every amplitude passed for the bin.
C20_NoSampleTransparent ==
    (CurrentCall /\ NoSampleColumn) => lastCall.color.a = 0

(***************************************************************************)
(* Properties of the raw bottom detection                                  *)
(***************************************************************************)
Detected == lastCall.made /\ lastCall.variant = "detect"

DetectedColumn == ShapeColumn(lastCall.shape)

\* The column has a bin >= 180 or three consecutive bins >= 100.
HasCandidate ==
    \/ \E i \in DOMAIN DetectedColumn : DetectedColumn[i] >= 180
    \/ \E i \in DOMAIN DetectedColumn :
          /\ i + 2 \in DOMAIN DetectedColumn
          /\ \A k \in 0..2 : DetectedColumn[i + k] >= 100

\* C24: the raw detection is -1 exactly when the column has no candidate (no
\* bin >= 180 and no three consecutive bins >= 100); with a candidate it is an
\* index in 0..len-1 that the tracker accepts as a present measurement, also
\* when it is 0.
C24_DetectionAccepted ==
    Detected =>
        /\ (lastCall.rawBottomStartIndex = -1 <=> ~HasCandidate)
        /\ HasCandidate =>
              /\ lastCall.rawBottomStartIndex \in DOMAIN DetectedColumn
              /\ TrackFilter.initialized
              /\ TrackFilter.x = lastCall.rawBottomStartIndex * XScale
              /\ lastCall.bottomStartIndex = lastCall.rawBottomStartIndex

\* The steepest single-step increase between bins lo..hi+1 of the detected column.
SteepestIncrease(lo, hi) ==
    LET steps == {DetectedColumn[i + 1] - DetectedColumn[i] : i \in {k \in lo..hi : k + 1 \in DOMAIN DetectedColumn}}
    IN  IF steps = {} THEN 0 ELSE CHOOSE g \in steps : \A h \in steps : h <= g

\* C25: the edge refinement only moves the boundary backward: for a candidate
\* c the refined index r has max(0, c-5) <= r <= c, and r differs from c only
\* when the steepest single-step increase of the search window is at least 50.
C25_RefinementBackward ==
    (Detected /\ lastCall.candidate # -1) =>
        /\ Max(0, lastCall.candidate - 5) <= lastCall.rawBottomStartIndex
        /\ lastCall.rawBottomStartIndex <= lastCall.candidate
        /\ lastCall.rawBottomStartIndex # lastCall.candidate =>
              SteepestIncrease(Max(0, lastCall.candidate - 5), lastCall.candidate + 1) >= 50

(***************************************************************************)
(* Properties of the frame composer on a canvas of any width               *)
(***************************************************************************)
Composed == lastCall.made /\ lastCall.variant = "compose"

VisibleColumns == lastCall.width \div columnWidthMap(lastCall.mode)

\* The x range (0-based, end excluded) of ping j in a frame at index K.
PingLeft(j) == lastCall.width - (lastCall.index - j + 1) * columnWidthMap(lastCall.mode)

OldestDrawn == Max(0, lastCall.index - VisibleColumns + 1)

\* C26: a full rebuild at K followed by a sequential advance to K+1 leaves
\* the buffer a full rebuild at K+1 produces, for every width and mode.
C26_AdvanceEqualsRebuild ==
    (Composed /\ lastCall.branch = "sequential" /\ lastCall.branchBefore = "rebuild") =>
        lastCall.pixelData = RebuildPixels(lastCall.width, lastCall.mode, CanvasPings,
                                           lastCall.index)

\* C27: after a full rebuild at K exactly the pings max(0, K-N+1)..K are
\* drawn, ping j in [width - (K-j+1)*columnWidth, width - (K-j)*columnWidth),
\* and every pixel left of the oldest drawn ping holds the background fill.
C27_RebuildLayout ==
    (Composed /\ lastCall.branch = "rebuild") =>
        \A x \in 1..lastCall.width :
            \/ \E j \in OldestDrawn..lastCall.index :
                  /\ PingLeft(j) <= x - 1
                  /\ x - 1 < PingLeft(j) + columnWidthMap(lastCall.mode)
                  /\ lastCall.pixelData[x] = [ping |-> j, px |-> x - 1 - PingLeft(j)]
            \/ /\ x - 1 < PingLeft(OldestDrawn)
               /\ lastCall.pixelData[x] = BackgroundCell

\* A rebuild of a full canvas whose width is not a multiple of the column
\* width: the strip on the left is background, the newest ping is at the
\* right edge.
C27_Witness ==
    /\ Composed
    /\ lastCall.branch = "rebuild"
    /\ lastCall.width % columnWidthMap(lastCall.mode) # 0
    /\ VisibleColumns >= 2
    /\ lastCall.index > VisibleColumns
    /\ lastCall.pixelData[1] = BackgroundCell
    /\ lastCall.pixelData[lastCall.width].ping = lastCall.index

(***************************************************************************)
(* Properties of the display configuration                                 *)
(***************************************************************************)
\* C28: the sensitivity selected in the display configuration is the value
\* the classifier uses when RadarCanvas renders a column in t03Average mode:
\* the column drawn is the one the classifier yields with that sensitivity.
C28_ConfiguredSensitivityUsed ==
    (lastCall.made /\ lastCall.variant = "display") =>
        lastCall.columns =
            renderDetectedWith(DetectBottom(Column(lastCall.id)), Column(lastCall.id),
                               lastCall.mode, ClockOf(1), lastCall.before,
                               0, MAX_RAW_SIGNAL, lastCall.configured).columns

(***************************************************************************)
(* Properties of the player                                                *)
(***************************************************************************)
ListLength == Len(FilePings(packets.file))

\* The last render was made with isPlaying: its effect left an interval.
ShownPlaying == rendered.mounted /\ rendered.isPlaying

\* C29: playback terminates.  While the player plays a non-empty list the
\* index advances by exactly 1 per timer tick until it is length-1; there
\* isPlaying becomes false and a tick leaves the index; the index never
\* exceeds length-1 and no tick changes it while the player is paused.
C29_PlaybackTerminates ==
    /\ [](currentIndex <= ListLength - 1)
    /\ [][currentIndex' # currentIndex =>
            (ShownPlaying /\ currentIndex' = currentIndex + 1 /\ isPlaying' = isPlaying)]_vars
    /\ [][(Tick /\ currentIndex = ListLength - 1) =>
            (currentIndex' = currentIndex /\ ~isPlaying')]_vars
    /\ [][(Tick /\ currentIndex < ListLength - 1) => currentIndex' = currentIndex + 1]_vars
    /\ ShownPlaying ~> (~isPlaying /\ currentIndex = ListLength - 1)

\* Playback came to the end of a list of several pings by a tick: the last
\* render was still made with isPlaying.
C29_Witness ==
    /\ ShownPlaying
    /\ ~isPlaying
    /\ ListLength > 1
    /\ currentIndex = ListLength - 1

\* C30: in every render with a non-empty list, 0 <= currentIndex <
\* packets.length, also in the render right after the list was replaced by a
\* shorter one.
C30_IndexWithinList ==
    (rendered.mounted /\ Len(FilePings(rendered.packets.file)) > 0) =>
        /\ 0 <= rendered.currentIndex
        /\ rendered.currentIndex < Len(FilePings(rendered.packets.file))

=============================================================================
